---------------------------- MODULE Spec2Model ----------------------------
(***************************************************************************)
(* Model of the two pipeline stages of dachs_rag_framework:                *)
(*   - scripts/generate_qa_candidates.py  (candidate generation)          *)
(*   - scripts/generate_qa_dataset.py     (dataset finalization,          *)
(*                                         modes single | map | reduce)   *)
(*                                                                         *)
(* Python strings on which the code calls strip()/len()/join() are         *)
(* sequences of one-character strings; enumeration-like fields (language, *)
(* trust level, content type, mode names) are atomic strings.              *)
(***************************************************************************)
EXTENDS Integers, Sequences, FiniteSets, TLC

(***************************************************************************)
(* Strings                                                                 *)
(***************************************************************************)

\* Python's None where a string or a list is expected.
None == <<"<None>">>

NoneAtom == "<None>"

IsStr(v) == v # None

IsWs(c) == c \in {" ", "\n"}

RECURSIVE LStrip(_)
LStrip(s) == IF s = <<>> THEN <<>>
             ELSE IF IsWs(Head(s)) THEN LStrip(Tail(s)) ELSE s

RECURSIVE RStrip(_)
RStrip(s) == IF s = <<>> THEN <<>>
             ELSE IF IsWs(s[Len(s)]) THEN RStrip(SubSeq(s, 1, Len(s) - 1)) ELSE s

\* str.strip()
Strip(s) == RStrip(LStrip(s))

\* isinstance(v, str) and v.strip()
NonEmptyStr(v) == IsStr(v) /\ Strip(v) # <<>>

\* "\n".join(parts)
RECURSIVE JoinNl(_)
JoinNl(parts) == IF parts = <<>> THEN <<>>
                 ELSE IF Len(parts) = 1 THEN parts[1]
                 ELSE parts[1] \o <<"\n">> \o JoinNl(Tail(parts))

CharCode(c) ==
    CASE c = "a" -> 97 [] c = "b" -> 98 [] c = "c" -> 99 [] c = "d" -> 100
      [] c = "e" -> 101 [] c = "q" -> 113 [] c = "w" -> 119 [] c = "s" -> 115
      [] c = "0" -> 48 [] c = "1" -> 49 [] c = "2" -> 50 [] c = "3" -> 51
      [] c = ":" -> 58 [] c = "_" -> 95 [] c = " " -> 32 [] c = "\n" -> 10
      [] OTHER -> 63

HashRange == 65536

\* stable_int_hash: int(sha1(s)[:8], 16), a fixed function of the key with
\* values in [0, 2^32).  SHA-1 itself is not computable here; the stand-in is
\* a polynomial checksum of the key's characters, also a fixed function of
\* the key alone and non-negative (kept below 2^16, inside the integers the
\* model checker computes with).
RECURSIVE stable_int_hash(_)
stable_int_hash(s) ==
    IF s = <<>> THEN 7
    ELSE (CharCode(Head(s)) + 31 * stable_int_hash(Tail(s))) % HashRange

\* sha1_16: the first 16 hex digits of SHA-1; modelled as a digest value that
\* is distinct from every key and collision-free on the bounded key space.
sha1_16(s) == <<"sha1_16">> \o s


(***************************************************************************)
(* generate_qa_dataset.py: configuration                                   *)
(***************************************************************************)

\* DatasetConfig filter values.  The length bounds are the configured values
\* of a deployment whose texts are a few characters long (the defaults are
\* 20/600/30/2000); the allowed sets are subsets of the defaults.
min_question_chars == 2

max_question_chars == 4

min_answer_chars == 2

max_answer_chars == 4

languages_allowed == {"de", "en"}

trust_levels_allowed == {"high", "medium"}

content_types_allowed == {"textbook", "paper"}

require_nonempty_sources == TRUE

dedup_mode == "exact"

dedup_keys == <<"instruction", "output">>

workspace_abbr == <<"w", "s">>

id_zero_pad == 2

(***************************************************************************)
(* generate_qa_dataset.py: pure functions                                  *)
(***************************************************************************)

\* A candidate line of qa_candidates/*.jsonl (the fields the finalizer reads).
Cand(id, anchor, q, a, lang, trust, ctypes, sources) ==
    [id |-> id, anchor_chunk_id |-> anchor, question |-> q, answer |-> a,
     language |-> lang, trust_level |-> trust, content_type |-> ctypes,
     source_chunks |-> sources]

\* _first_nonempty_str on an enumeration-like field.
first_nonempty_atom(v) == IF v = "" THEN NoneAtom ELSE v

\* _first_nonempty_str(*vals) on strings.
RECURSIVE first_nonempty_str(_)
first_nonempty_str(vals) ==
    IF vals = <<>> THEN None
    ELSE IF NonEmptyStr(Head(vals)) THEN Strip(Head(vals))
    ELSE first_nonempty_str(Tail(vals))

\* source_ids of validate_and_map_candidate: "chunk:" + cid.strip() for each
\* non-empty string of source_chunks, else the anchor chunk id.
RECURSIVE source_ids_of(_)
source_ids_of(chunks) ==
    IF chunks = <<>> THEN <<>>
    ELSE (IF NonEmptyStr(Head(chunks))
          THEN << <<"chunk:">> \o Strip(Head(chunks)) >> ELSE <<>>)
         \o source_ids_of(Tail(chunks))

map_source_ids(cand) ==
    IF cand.source_chunks # None THEN source_ids_of(cand.source_chunks)
    ELSE IF IsStr(cand.anchor_chunk_id) THEN << <<"chunk:">> \o cand.anchor_chunk_id >>
    ELSE <<>>

\* Faulty variant of reject_reason: the four length checks are missing.
reject_reason_no_length(cand) ==
    IF ~NonEmptyStr(cand.question) THEN "missing_or_empty:question"
    ELSE IF ~NonEmptyStr(cand.answer) THEN "missing_or_empty:answer"
    ELSE IF require_nonempty_sources
            /\ (cand.source_chunks = None \/ cand.source_chunks = <<>>)
         THEN "missing_sources"
    ELSE ""

\* The reason validate_and_map_candidate rejects cand with, or "" when it
\* accepts it (the checks in the order of the code).
reject_reason(cand) ==
    LET q == IF IsStr(cand.question) THEN Strip(cand.question) ELSE <<>>
        a == IF IsStr(cand.answer) THEN Strip(cand.answer) ELSE <<>>
        lang == first_nonempty_atom(cand.language)
        trust == first_nonempty_atom(cand.trust_level)
        ctypes == {cand.content_type[i] : i \in 1..Len(cand.content_type)} \ {""}
    IN  IF ~NonEmptyStr(cand.question) THEN "missing_or_empty:question"
        ELSE IF ~NonEmptyStr(cand.answer) THEN "missing_or_empty:answer"
        ELSE IF Len(q) < min_question_chars THEN "question_too_short"
        ELSE IF Len(q) > max_question_chars THEN "question_too_long"
        ELSE IF Len(a) < min_answer_chars THEN "answer_too_short"
        ELSE IF Len(a) > max_answer_chars THEN "answer_too_long"
        ELSE IF lang # NoneAtom /\ languages_allowed # {} /\ lang \notin languages_allowed
             THEN "language_not_allowed"
        ELSE IF trust # NoneAtom /\ trust_levels_allowed # {}
                /\ trust \notin trust_levels_allowed
             THEN "trust_level_not_allowed"
        ELSE IF ctypes # {} /\ content_types_allowed # {}
                /\ ctypes \cap content_types_allowed = {}
             THEN "content_type_not_allowed"
        ELSE IF require_nonempty_sources
                /\ (cand.source_chunks = None \/ cand.source_chunks = <<>>)
             THEN "missing_sources"
        ELSE ""

\* The sample validate_and_map_candidate returns for an accepted candidate.
map_candidate(cand, version, created_at_run) ==
    [id |-> None,
     instruction |-> Strip(cand.question),
     output |-> Strip(cand.answer),
     language |-> IF first_nonempty_atom(cand.language) = NoneAtom
                  THEN "unknown" ELSE cand.language,
     content_type |-> SelectSeq(cand.content_type, LAMBDA x : x # ""),
     trust_level |-> IF first_nonempty_atom(cand.trust_level) = NoneAtom
                     THEN "unknown" ELSE cand.trust_level,
     source_ids |-> map_source_ids(cand),
     created_at |-> created_at_run,
     version |-> version,
     candidate_id |-> cand.id,
     anchor_chunk_id |-> cand.anchor_chunk_id]

\* str(n).zfill(pad)
Digit(n) == CASE n = 0 -> "0" [] n = 1 -> "1" [] n = 2 -> "2" [] n = 3 -> "3"
              [] n = 4 -> "4" [] n = 5 -> "5" [] n = 6 -> "6" [] n = 7 -> "7"
              [] n = 8 -> "8" [] OTHER -> "9"

RECURSIVE IntStr(_)
IntStr(n) == IF n < 10 THEN <<Digit(n)>> ELSE IntStr(n \div 10) \o <<Digit(n % 10)>>

RECURSIVE Zfill(_, _)
Zfill(s, pad) == IF Len(s) >= pad THEN s ELSE Zfill(<<"0">> \o s, pad)

StrOrEmpty(v) == IF IsStr(v) THEN v ELSE <<>>

make_id(id_strategy, seq, sample) ==
    IF id_strategy = "candidate" /\ NonEmptyStr(sample.candidate_id)
    THEN Strip(sample.candidate_id)
    ELSE IF id_strategy = "hash"
    THEN workspace_abbr \o <<"_">>
         \o sha1_16(JoinNl(<<StrOrEmpty(sample.anchor_chunk_id),
                             StrOrEmpty(sample.instruction),
                             StrOrEmpty(sample.output)>>))
         \o <<"_", "q", "1">>
    ELSE workspace_abbr \o <<"_">> \o Zfill(IntStr(seq), id_zero_pad) \o <<"_", "q", "1">>

\* str(v) of a value that is not a string (None here).
PyStr(v) == IF v = None THEN <<"N", "o", "n", "e">> ELSE v

dedup_key(sample, keys) ==
    JoinNl([i \in 1..Len(keys) |->
              LET v == IF keys[i] = "instruction" THEN sample.instruction
                       ELSE sample.output
              IN  IF IsStr(v) THEN Strip(v) ELSE PyStr(v)])

dedup_fingerprint(dedup_store, sample) ==
    LET k == dedup_key(sample, dedup_keys)
    IN  IF dedup_store = "full" THEN k ELSE sha1_16(k)

Max(a, b) == IF a >= b THEN a ELSE b

\* Faulty variant of shard_of_candidate: the modulus is off by one.
shard_of_candidate_off_by_one(shard_key, num_shards, cand) ==
    LET key == IF shard_key = "question" THEN StrOrEmpty(cand.question)
               ELSE LET f == first_nonempty_str(<<cand.anchor_chunk_id, cand.id>>)
                    IN  IF f # None THEN f ELSE StrOrEmpty(cand.question)
    IN  stable_int_hash(key) % (Max(num_shards, 1) + 1)

shard_of_candidate(shard_key, num_shards, cand) ==
    LET key == IF shard_key = "question" THEN StrOrEmpty(cand.question)
               ELSE LET f == first_nonempty_str(<<cand.anchor_chunk_id, cand.id>>)
                    IN  IF f # None THEN f ELSE StrOrEmpty(cand.question)
    IN  stable_int_hash(key) % Max(num_shards, 1)


(***************************************************************************)
(* Bounds and the inputs of the dataset stage                              *)
(***************************************************************************)

\* Number of candidate files in qa_candidates/ and of candidate lines in all.
NumCandFiles == 2

MaxCands == 2

\* Largest num_shards, largest version number, number of runs of main.
MaxShards == 3

MaxVersion == 2

MaxRuns == 4

AUTO == 0

A1 == <<"c", "1">>

A2 == <<"c", "2">>

A3 == <<"c", "3">>

\* The candidate lines the input files are built from: two valid candidates
\* of different anchors whose question/answer agree after strip(), a third
\* valid one, a rejected one, and a valid one without anchor and id.
CandUniverse ==
    { Cand(A1 \o <<":", "a">>, A1, <<"a", "b">>, <<"c", "d">>,
           "de", "high", <<"paper">>, <<A1>>),
      Cand(A2 \o <<":", "a">>, A2, <<" ", "a", "b">>, <<"c", "d", "\n">>,
           "de", "medium", <<"paper">>, <<A2, A1>>),
      Cand(A2 \o <<":", "b">>, A2, <<"a", "b", "c">>, <<"c", "d">>,
           "en", "high", <<"textbook">>, <<A2>>),
      Cand(A1 \o <<":", "b">>, A1, <<"a", " ">>, <<"c", "d">>,
           "de", "high", <<"paper">>, <<A1>>),
      Cand(None, None, <<"a", "b", "d">>, <<"d", "c">>,
           "", "", <<>>, <<A1>>) }

SeqsUpTo(S, n) == UNION {[1..m -> S] : m \in 0..n}

RECURSIVE TotalLen(_)
TotalLen(files) == IF files = <<>> THEN 0 ELSE Len(Head(files)) + TotalLen(Tail(files))

\* The possible contents of qa_candidates/, in sorted file order, with at
\* most n candidate lines in all.
\* Two candidates with different (question, answer) pairs whose dedup keys
\* (question, newline, answer) are the same string, and a repetition of the
\* second one under another anchor.
CollideUniverse ==
    { Cand(A2 \o <<":", "a">>, A2, <<"a", "b", "\n", "c">>, <<"d", "d">>,
           "de", "high", <<"paper">>, <<A2>>),
      Cand(A3 \o <<":", "a">>, A3, <<"a", "b">>, <<"c", "\n", "d", "d">>,
           "de", "high", <<"paper">>, <<A3>>),
      Cand(A1 \o <<":", "a">>, A1, <<"a", "b">>, <<"c", "\n", "d", "d">>,
           "de", "high", <<"paper">>, <<A1>>) }

\* The candidate files: lines of U, at most n in all.
CandLayoutsOf(U, n) ==
    {f \in [1..NumCandFiles -> SeqsUpTo(U, n)] : TotalLen(f) <= n}

CandLayouts(n) == CandLayoutsOf(CandUniverse, n)

ShardIds == 0..(MaxShards - 1)

Versions == 1..MaxVersion

(***************************************************************************)
(* State                                                                   *)
(***************************************************************************)

VARIABLES
    candFiles,   \* qa_candidates/*.jsonl: sequence of files, each a sequence of lines
    cfg,         \* DatasetConfig of the deployment (config file + CLI overrides)
    clock,       \* number of runs of main started; datetime.now() of a run
    shardFile,   \* _tmp_shards/<version>/shard_XX.jsonl
    shardRej,    \* _tmp_shards/<version>/shard_XX.rejects.jsonl
    finalFile,   \* qa_final/<dataset_name>_v<N>.jsonl
    rejFile,     \* qa_final/qa_rejects_v<N>.jsonl
    changelog,   \* qa_final/CHANGELOG.md: entries, newest first
    mp,          \* the run_map process of each shard id
    rd,          \* the run_reduce process
    sg,          \* the run_single process
    lastCall,    \* the latest invocation of main: arguments and outcome
    lastReduce,  \* input and result of the latest completed run_reduce
    prevReduce   \* input and result of the completed run_reduce before it

dvars == <<candFiles, cfg, clock, shardFile, shardRej, finalFile, rejFile,
           changelog, mp, rd, sg, lastCall, lastReduce, prevReduce>>

VARIABLES
    semFiles,    \* semantic/json: sequence of documents, each a sequence of chunks
    qcfg,        \* QAConfig of the deployment (config file + CLI arguments)
    outFile,     \* qa_candidates/jsonl/<input_basename>.qa_candidates.jsonl per document
    cm,          \* the running main of generate_qa_candidates (one worker)
    cp,          \* the running process_semantic_file
    llmLog,      \* requests to the language model in the current run of main
    cruns        \* number of runs of main of generate_qa_candidates started

cvars == <<semFiles, qcfg, outFile, cm, cp, llmLog, cruns>>

\* One call of a function on its own (build_context_groups,
\* call_llm_ollama_with_retries): the arguments and the result.
VARIABLE bcg

vars == <<dvars, cvars, bcg>>

\* A file that does not exist, and a file with the given lines.
NoFile == [exists |-> FALSE, lines |-> <<>>]

FileOf(lines) == [exists |-> TRUE, lines |-> lines]

\* Faulty variant of open_w: the file is opened without being truncated.
open_w_no_truncate(file) == [exists |-> TRUE, lines |-> file.lines]

\* path.open("w"): the file exists and is empty.
open_w(file) == FileOf(<<>>)

\* Faulty variant of open_a: the file is opened with mode "w".
open_a_truncating(file) == [exists |-> TRUE, lines |-> <<>>]

\* path.open("a"): the file exists with the lines it had.
open_a(file) == FileOf(file.lines)

\* f.write(json.dumps(obj) + "\n")
write_line(file, obj) == FileOf(Append(file.lines, obj))

Counters0 == [read |-> 0, kept |-> 0, dropped |-> 0, duped |-> 0]

IdleProc == [pc |-> "idle"]

NoCall == [mode |-> "none", version |-> AUTO, outcome |-> "none"]

NoReduce == [done |-> FALSE]

DataFilesInit ==
    /\ shardFile = [v \in Versions |-> [k \in ShardIds |-> NoFile]]
    /\ shardRej = [v \in Versions |-> [k \in ShardIds |-> NoFile]]
    /\ finalFile = [v \in Versions |-> NoFile]
    /\ rejFile = [v \in Versions |-> NoFile]
    /\ changelog = NoFile
    /\ mp = [k \in ShardIds |-> IdleProc]
    /\ rd = IdleProc
    /\ sg = IdleProc
    /\ clock = 0
    /\ lastCall = NoCall
    /\ lastReduce = NoReduce
    /\ prevReduce = NoReduce

\* The configurations and inputs of the dataset stage.
DataInit(layouts, shards, limits, strategies, stores, dry) ==
    /\ candFiles \in layouts
    /\ cfg \in [num_shards : shards, limit_num_examples : limits,
                id_strategy : strategies, dedup_store : stores,
                shard_key : {"anchor_or_candidate"}, dry_run : dry,
                write_rejects_jsonl : {TRUE}, write_changelog : {TRUE}]
    /\ DataFilesInit

\* The candidate stage at rest: no document, no output, no run.
CandStageIdle ==
    /\ semFiles = <<>>
    /\ qcfg = [resume_mode |-> "append"]
    /\ outFile = <<>>
    /\ cm = IdleProc
    /\ cp = IdleProc
    /\ llmLog = {}
    /\ cruns = 0

\* The dataset stage at rest: no candidate file, no run.
DataStageIdle == DataInit({<<>>}, {1}, {0}, {"sequential"}, {"hash16"}, {FALSE})

\* No call of a function on its own.
GroupingIdle == bcg = IdleProc

\* No process of the dataset stage is running.
AllIdle == rd.pc = "idle" /\ sg.pc = "idle" /\ \A k \in ShardIds : mp[k].pc = "idle"


(***************************************************************************)
(* main: version check and dispatch                                        *)
(***************************************************************************)

RECURSIVE MaxOf(_)
MaxOf(S) == IF S = {} THEN 0
            ELSE LET x == CHOOSE y \in S : TRUE IN Max(x, MaxOf(S \ {x}))

\* Faulty variant of infer_next_version: the largest existing version is
\* returned without the increment (v1 when there is none).
infer_next_version_no_increment(final) ==
    Max(MaxOf({v \in Versions : final[v].exists}), 1)

\* infer_next_version: v(max N + 1) over the files <dataset_name>_v<N>.jsonl.
infer_next_version(final) == MaxOf({v \in Versions : final[v].exists}) + 1

VersionError == -1

\* Faulty variant of main_version: "auto" is inferred in every mode.
main_version_infer_always(mode, version_arg, final) ==
    IF version_arg = AUTO THEN infer_next_version(final) ELSE version_arg

\* The version main runs the mode with: an explicit version as given, "auto"
\* an error in map and reduce mode and the inferred next version otherwise.
main_version(mode, version_arg, final) ==
    IF mode \in {"map", "reduce"}
    THEN IF version_arg = AUTO THEN VersionError ELSE version_arg
    ELSE IF version_arg = AUTO THEN infer_next_version(final) ELSE version_arg

\* A run of main that reads the time may start: their number is below its
\* bound.
CanStart == clock < MaxRuns

\* main raises ValueError: map or reduce mode with version "auto".
MainAbort(mode, version_arg) ==
    /\ mode \in {"map", "reduce"}
    /\ main_version(mode, version_arg, finalFile) = VersionError
    /\ lastCall' = [mode |-> mode, version |-> version_arg, outcome |-> "ValueError"]
    /\ UNCHANGED <<candFiles, cfg, clock, shardFile, shardRej, finalFile, rejFile,
                   changelog, mp, rd, sg, lastReduce, prevReduce>>

(***************************************************************************)
(* run_map                                                                 *)
(***************************************************************************)

\* The position of the next line at or after line li of file fi, in the
\* nested loops over the files and their lines.
RECURSIVE NextPos(_, _, _)
NextPos(files, fi, li) ==
    IF fi > Len(files) THEN <<fi, 1>>
    ELSE IF li > Len(files[fi]) THEN NextPos(files, fi + 1, 1)
    ELSE <<fi, li>>

AtEnd(files, fi, li) == NextPos(files, fi, li)[1] > Len(files)

LimitReached(kept) == cfg.limit_num_examples > 0 /\ kept >= cfg.limit_num_examples

\* run_map up to the loop: the output and rejects files are opened for
\* writing (truncated) unless dry_run.
MapStart(k, version_arg) ==
    LET version == main_version("map", version_arg, finalFile) IN
    /\ CanStart
    /\ rd.pc = "idle" /\ sg.pc = "idle" /\ mp[k].pc = "idle"
    /\ k < cfg.num_shards
    /\ version \in Versions
    /\ clock' = clock + 1
    /\ lastCall' = [mode |-> "map", version |-> version_arg, outcome |-> "started"]
    /\ mp' = [mp EXCEPT ![k] = [pc |-> "run", version |-> version, fi |-> 1, li |-> 1,
                                seen |-> {}, c |-> Counters0, created_at |-> clock + 1,
                                stopped |-> FALSE]]
    /\ shardFile' = IF cfg.dry_run THEN shardFile
                    ELSE [shardFile EXCEPT ![version][k] = open_w(@)]
    /\ shardRej' = IF cfg.dry_run \/ ~cfg.write_rejects_jsonl THEN shardRej
                   ELSE [shardRej EXCEPT ![version][k] = open_w(@)]
    /\ UNCHANGED <<candFiles, cfg, finalFile, rejFile, changelog, rd, sg,
                   lastReduce, prevReduce>>

\* One iteration of run_map's inner loop on candidate line cand (line li of
\* file fi): the worker's new counters and seen set, and what it writes.
map_record(st, k, cand, fi, li) ==
    LET reason == reject_reason(cand)
        sample == map_candidate(cand, st.version, st.created_at)
        fp_key == dedup_fingerprint(cfg.dedup_store, sample)
        nothing == [c |-> st.c, seen |-> st.seen, out |-> <<>>, rej |-> <<>>]
    IN  IF shard_of_candidate(cfg.shard_key, cfg.num_shards, cand) # k THEN nothing
        ELSE IF reason # ""
        THEN [c |-> [st.c EXCEPT !.read = @ + 1, !.dropped = @ + 1],
              seen |-> st.seen, out |-> <<>>,
              rej |-> <<[reason |-> reason, file |-> fi, line |-> li,
                         candidate_id |-> cand.id,
                         anchor_chunk_id |-> cand.anchor_chunk_id]>>]
        ELSE IF dedup_mode = "exact" /\ fp_key \in st.seen
        THEN [c |-> [st.c EXCEPT !.read = @ + 1, !.duped = @ + 1],
              seen |-> st.seen, out |-> <<>>, rej |-> <<>>]
        ELSE [c |-> [st.c EXCEPT !.read = @ + 1, !.kept = @ + 1],
              seen |-> IF dedup_mode = "exact" THEN st.seen \cup {fp_key} ELSE st.seen,
              out |-> <<sample>>, rej |-> <<>>]

WriteAll(file, objs) == IF objs = <<>> THEN file ELSE write_line(file, objs[1])

\* Faulty variant of MapStep: the shard id is left out of the names of the
\* output files, so every worker writes shard_00.
MapStep_one_file(k) ==
    /\ mp[k].pc = "run" /\ ~mp[k].stopped
    /\ ~AtEnd(candFiles, mp[k].fi, mp[k].li)
    /\ LET pos == NextPos(candFiles, mp[k].fi, mp[k].li)
           r == map_record(mp[k], k, candFiles[pos[1]][pos[2]], pos[1], pos[2])
       IN  /\ mp' = [mp EXCEPT ![k] = [@ EXCEPT !.fi = pos[1], !.li = pos[2] + 1,
                                         !.c = r.c, !.seen = r.seen,
                                         !.stopped = r.out # <<>> /\ LimitReached(r.c.kept)]]
           /\ shardFile' = IF cfg.dry_run THEN shardFile
                           ELSE [shardFile EXCEPT ![mp[k].version][0] = WriteAll(@, r.out)]
           /\ shardRej' = IF cfg.dry_run \/ ~cfg.write_rejects_jsonl THEN shardRej
                          ELSE [shardRej EXCEPT ![mp[k].version][0] = WriteAll(@, r.rej)]
    /\ UNCHANGED <<candFiles, cfg, clock, finalFile, rejFile, changelog, rd, sg,
                   lastCall, lastReduce, prevReduce>>

\* One iteration of the loops of run_map of shard k.
MapStep(k) ==
    /\ mp[k].pc = "run" /\ ~mp[k].stopped
    /\ ~AtEnd(candFiles, mp[k].fi, mp[k].li)
    /\ LET pos == NextPos(candFiles, mp[k].fi, mp[k].li)
           r == map_record(mp[k], k, candFiles[pos[1]][pos[2]], pos[1], pos[2])
       IN  /\ mp' = [mp EXCEPT ![k] = [@ EXCEPT !.fi = pos[1], !.li = pos[2] + 1,
                                         !.c = r.c, !.seen = r.seen,
                                         !.stopped = r.out # <<>> /\ LimitReached(r.c.kept)]]
           /\ shardFile' = IF cfg.dry_run THEN shardFile
                           ELSE [shardFile EXCEPT ![mp[k].version][k] = WriteAll(@, r.out)]
           /\ shardRej' = IF cfg.dry_run \/ ~cfg.write_rejects_jsonl THEN shardRej
                          ELSE [shardRej EXCEPT ![mp[k].version][k] = WriteAll(@, r.rej)]
    /\ UNCHANGED <<candFiles, cfg, clock, finalFile, rejFile, changelog, rd, sg,
                   lastCall, lastReduce, prevReduce>>

\* run_map after the loops: the files are closed and the worker returns.
MapEnd(k) ==
    /\ mp[k].pc = "run"
    /\ mp[k].stopped \/ AtEnd(candFiles, mp[k].fi, mp[k].li)
    /\ mp' = [mp EXCEPT ![k] = IdleProc]
    /\ UNCHANGED <<candFiles, cfg, clock, shardFile, shardRej, finalFile, rejFile,
                   changelog, rd, sg, lastCall, lastReduce, prevReduce>>


(***************************************************************************)
(* run_reduce                                                              *)
(***************************************************************************)

\* Faulty variant of ShardSeq: the shard files are read in the order in
\* which their workers started (an unsorted directory listing) instead of
\* the order of the shard ids.
ShardSeq_by_start_time(shards, num_shards) ==
    LET key(i) == IF shards[i].lines = <<>> THEN 0 ELSE shards[i].lines[1].created_at
        order == CHOOSE f \in [1..num_shards -> 0..(num_shards - 1)] :
                    \A a, b \in 1..num_shards :
                        a < b => \/ key(f[a]) < key(f[b])
                                 \/ key(f[a]) = key(f[b]) /\ f[a] < f[b]
    IN  [i \in 1..num_shards |-> shards[order[i]].lines]

\* The shard files run_reduce reads, shard_00 .. shard_(num_shards-1), as a
\* sequence of files in that order.
ShardSeq(shards, num_shards) == [i \in 1..num_shards |-> shards[i - 1].lines]

\* Faulty variant of missing_shard: only shard_00 is looked for.
missing_shard_first_only(shards, num_shards) == ~shards[0].exists

\* Some file of shard_00 .. shard_(num_shards-1) does not exist.
missing_shard(shards, num_shards) == \E i \in 0..(num_shards - 1) : ~shards[i].exists

\* run_reduce raises FileNotFoundError: a shard file (or the whole
\* intermediate directory) is missing.  Nothing has been opened yet.
ReduceFail(version_arg) ==
    LET version == main_version("reduce", version_arg, finalFile) IN
    /\ AllIdle
    /\ version \in Versions
    /\ missing_shard(shardFile[version], cfg.num_shards)
    /\ lastCall' = [mode |-> "reduce", version |-> version_arg,
                    outcome |-> "FileNotFoundError"]
    /\ UNCHANGED <<candFiles, cfg, clock, shardFile, shardRej, finalFile, rejFile,
                   changelog, mp, rd, sg, lastReduce, prevReduce>>

\* run_reduce up to the loop: all shard files exist; the dataset file and
\* the rejects file are opened for writing (truncated) unless dry_run.
ReduceStart(version_arg) ==
    LET version == main_version("reduce", version_arg, finalFile) IN
    /\ CanStart /\ AllIdle
    /\ version \in Versions
    /\ ~missing_shard(shardFile[version], cfg.num_shards)
    /\ clock' = clock + 1
    /\ lastCall' = [mode |-> "reduce", version |-> version_arg, outcome |-> "started"]
    /\ rd' = [pc |-> "run", version |-> version, fi |-> 1, li |-> 1, seen |-> {},
              seq |-> 0, c |-> Counters0, created_at |-> clock + 1, stopped |-> FALSE,
              input |-> ShardSeq(shardFile[version], cfg.num_shards)]
    /\ finalFile' = IF cfg.dry_run THEN finalFile
                    ELSE [finalFile EXCEPT ![version] = open_w(@)]
    /\ rejFile' = IF cfg.dry_run \/ ~cfg.write_rejects_jsonl THEN rejFile
                  ELSE [rejFile EXCEPT ![version] = open_w(@)]
    /\ UNCHANGED <<candFiles, cfg, shardFile, shardRej, changelog, mp, sg,
                   lastReduce, prevReduce>>

\* One iteration of run_reduce's inner loop on line li of shard file fi.
reduce_record(st, sample, fi, li) ==
    LET fp_key == dedup_fingerprint(cfg.dedup_store, sample)
        final == [sample EXCEPT !.created_at = st.created_at,
                                !.id = make_id(cfg.id_strategy, st.seq + 1, sample)]
    IN  IF ~IsStr(sample.instruction) \/ ~IsStr(sample.output)
        THEN [c |-> [st.c EXCEPT !.read = @ + 1, !.dropped = @ + 1],
              seen |-> st.seen, seq |-> st.seq, out |-> <<>>,
              rej |-> <<[reason |-> "invalid_intermediate_sample",
                         file |-> fi, line |-> li]>>]
        ELSE IF dedup_mode = "exact" /\ fp_key \in st.seen
        THEN [c |-> [st.c EXCEPT !.read = @ + 1, !.duped = @ + 1],
              seen |-> st.seen, seq |-> st.seq, out |-> <<>>, rej |-> <<>>]
        ELSE [c |-> [st.c EXCEPT !.read = @ + 1, !.kept = @ + 1],
              seen |-> IF dedup_mode = "exact" THEN st.seen \cup {fp_key} ELSE st.seen,
              seq |-> st.seq + 1, out |-> <<final>>, rej |-> <<>>]

\* One iteration of the loops of run_reduce.
ReduceStep ==
    /\ rd.pc = "run" /\ ~rd.stopped
    /\ LET files == ShardSeq(shardFile[rd.version], cfg.num_shards)
           pos == NextPos(files, rd.fi, rd.li)
       IN  /\ ~AtEnd(files, rd.fi, rd.li)
           /\ LET r == reduce_record(rd, files[pos[1]][pos[2]], pos[1], pos[2])
              IN  /\ rd' = [rd EXCEPT !.fi = pos[1], !.li = pos[2] + 1, !.c = r.c,
                                      !.seen = r.seen, !.seq = r.seq,
                                      !.stopped = r.out # <<>> /\ LimitReached(r.c.kept)]
                  /\ finalFile' = IF cfg.dry_run THEN finalFile
                                  ELSE [finalFile EXCEPT ![rd.version] = WriteAll(@, r.out)]
                  /\ rejFile' = IF cfg.dry_run \/ ~cfg.write_rejects_jsonl THEN rejFile
                                ELSE [rejFile EXCEPT ![rd.version] = WriteAll(@, r.rej)]
    /\ UNCHANGED <<candFiles, cfg, clock, shardFile, shardRej, changelog, mp, sg,
                   lastCall, lastReduce, prevReduce>>

\* write_changelog: the new entry is put before the old text; a new file
\* starts with the title line.
write_changelog(file, version, c, ts) ==
    LET entry == [version |-> version, ts |-> ts, output |-> version, kept |-> c.kept,
                  read |-> c.read, dropped |-> c.dropped, duplicates_removed |-> c.duped]
    IN  IF file.exists THEN FileOf(<<entry>> \o file.lines)
        ELSE FileOf(<<[title |-> "# QA Dataset Changelog"], entry>>)

\* Faulty variant of changelog_after: the changelog is written in a dry run
\* too.
changelog_after_in_dry_run(file, version, c, ts) ==
    IF ~cfg.write_changelog THEN file
    ELSE write_changelog(file, version, c, ts)

\* What a completed run leaves in the changelog: nothing in a dry run.
changelog_after(file, version, c, ts) ==
    IF cfg.dry_run \/ ~cfg.write_changelog THEN file
    ELSE write_changelog(file, version, c, ts)

\* run_reduce after the loops: the files are closed, the changelog written.
ReduceEnd ==
    /\ rd.pc = "run"
    /\ rd.stopped
       \/ AtEnd(ShardSeq(shardFile[rd.version], cfg.num_shards), rd.fi, rd.li)
    /\ changelog' = changelog_after(changelog, rd.version, rd.c, rd.created_at)
    /\ prevReduce' = lastReduce
    /\ lastReduce' = [done |-> TRUE, input |-> rd.input, version |-> rd.version,
                      c |-> rd.c,
                      out |-> IF cfg.dry_run THEN <<>> ELSE finalFile[rd.version].lines]
    /\ rd' = IdleProc
    /\ UNCHANGED <<candFiles, cfg, clock, shardFile, shardRej, finalFile, rejFile,
                   mp, sg, lastCall>>

(***************************************************************************)
(* run_single                                                              *)
(***************************************************************************)

\* The ids of the lines of an existing output file (resume and append).
existing_ids_of(file, resume_mode) ==
    IF resume_mode \in {"resume", "append"} /\ file.exists
    THEN {Strip(file.lines[i].id) : i \in {j \in 1..Len(file.lines) :
                                            NonEmptyStr(file.lines[j].id)}}
    ELSE {}

\* run_single up to the loop.
SingleStart(version_arg, resume_mode) ==
    LET version == main_version("single", version_arg, finalFile) IN
    /\ CanStart /\ AllIdle
    /\ version \in Versions
    /\ clock' = clock + 1
    /\ lastCall' = [mode |-> "single", version |-> version_arg, outcome |-> "started"]
    /\ sg' = [pc |-> "run", version |-> version, resume_mode |-> resume_mode,
              existing_ids |-> existing_ids_of(finalFile[version], resume_mode),
              fi |-> 1, li |-> 1, seen |-> {}, seq |-> 0, c |-> Counters0,
              created_at |-> clock + 1, stopped |-> FALSE]
    /\ finalFile' = IF cfg.dry_run THEN finalFile
                    ELSE IF resume_mode # "append"
                    THEN [finalFile EXCEPT ![version] = open_w(@)]
                    ELSE [finalFile EXCEPT ![version] = open_a(@)]
    /\ rejFile' = IF cfg.dry_run \/ ~cfg.write_rejects_jsonl THEN rejFile
                  ELSE [rejFile EXCEPT ![version] = open_w(@)]
    /\ UNCHANGED <<candFiles, cfg, shardFile, shardRej, changelog, mp, rd,
                   lastReduce, prevReduce>>

\* One iteration of run_single's inner loop on candidate line cand.
single_record(st, cand, fi, li) ==
    LET reason == reject_reason(cand)
        sample == map_candidate(cand, st.version, st.created_at)
        fp_key == dedup_fingerprint(cfg.dedup_store, sample)
        sample_id == make_id(cfg.id_strategy, st.seq + 1, sample)
        seen2 == IF dedup_mode = "exact" THEN st.seen \cup {fp_key} ELSE st.seen
    IN  IF reason # ""
        THEN [c |-> [st.c EXCEPT !.read = @ + 1, !.dropped = @ + 1],
              seen |-> st.seen, seq |-> st.seq, out |-> <<>>,
              rej |-> <<[reason |-> reason, file |-> fi, line |-> li,
                         candidate_id |-> cand.id,
                         anchor_chunk_id |-> cand.anchor_chunk_id]>>]
        ELSE IF dedup_mode = "exact" /\ fp_key \in st.seen
        THEN [c |-> [st.c EXCEPT !.read = @ + 1, !.duped = @ + 1],
              seen |-> st.seen, seq |-> st.seq, out |-> <<>>, rej |-> <<>>]
        ELSE IF st.resume_mode \in {"resume", "append"} /\ sample_id \in st.existing_ids
        THEN [c |-> [st.c EXCEPT !.read = @ + 1],
              seen |-> seen2, seq |-> st.seq + 1, out |-> <<>>, rej |-> <<>>]
        ELSE [c |-> [st.c EXCEPT !.read = @ + 1, !.kept = @ + 1],
              seen |-> seen2, seq |-> st.seq + 1,
              out |-> <<[sample EXCEPT !.id = sample_id]>>, rej |-> <<>>]

\* One iteration of the loops of run_single.
SingleStep ==
    /\ sg.pc = "run" /\ ~sg.stopped
    /\ ~AtEnd(candFiles, sg.fi, sg.li)
    /\ LET pos == NextPos(candFiles, sg.fi, sg.li)
           r == single_record(sg, candFiles[pos[1]][pos[2]], pos[1], pos[2])
       IN  /\ sg' = [sg EXCEPT !.fi = pos[1], !.li = pos[2] + 1, !.c = r.c,
                               !.seen = r.seen, !.seq = r.seq,
                               !.stopped = r.out # <<>> /\ LimitReached(r.c.kept)]
           /\ finalFile' = IF cfg.dry_run THEN finalFile
                           ELSE [finalFile EXCEPT ![sg.version] = WriteAll(@, r.out)]
           /\ rejFile' = IF cfg.dry_run \/ ~cfg.write_rejects_jsonl THEN rejFile
                         ELSE [rejFile EXCEPT ![sg.version] = WriteAll(@, r.rej)]
    /\ UNCHANGED <<candFiles, cfg, clock, shardFile, shardRej, changelog, mp, rd,
                   lastCall, lastReduce, prevReduce>>

\* run_single after the loops.
SingleEnd ==
    /\ sg.pc = "run"
    /\ sg.stopped \/ AtEnd(candFiles, sg.fi, sg.li)
    /\ changelog' = changelog_after(changelog, sg.version, sg.c, sg.created_at)
    /\ sg' = IdleProc
    /\ UNCHANGED <<candFiles, cfg, clock, shardFile, shardRej, finalFile, rejFile,
                   mp, rd, lastCall, lastReduce, prevReduce>>


(***************************************************************************)
(* Specifications of the dataset stage                                     *)
(***************************************************************************)

ResumeModes == {"overwrite", "resume", "append"}

\* Map and reduce runs of one campaign: every run is given the explicit
\* version v1; the map workers of different shard ids run concurrently,
\* reduce runs while no map worker does.
MRNext ==
    \/ \E k \in ShardIds : MapStart(k, 1) /\ UNCHANGED <<cvars, bcg>>
    \/ \E k \in ShardIds : MapStep(k) /\ UNCHANGED <<cvars, bcg>>
    \/ \E k \in ShardIds : MapEnd(k) /\ UNCHANGED <<cvars, bcg>>
    \/ ReduceFail(1) /\ UNCHANGED <<cvars, bcg>>
    \/ ReduceStart(1) /\ UNCHANGED <<cvars, bcg>>
    \/ ReduceStep /\ UNCHANGED <<cvars, bcg>>
    \/ ReduceEnd /\ UNCHANGED <<cvars, bcg>>

\* Largest num_shards of the campaigns over CandUniverse.
MRShards == 2

MRInit ==
    /\ DataInit(CandLayouts(MaxCands), 1..MRShards, {0, 1},
                {"sequential", "hash", "candidate"}, {"hash16"}, {FALSE})
    /\ CandStageIdle
    /\ GroupingIdle

SpecMR == MRInit /\ [][MRNext]_vars

\* A campaign of MaxShards map workers and a reduce over candidates whose
\* dedup keys collide, each anchor in a shard of its own.
CollideLayouts ==
    {f \in CandLayoutsOf(CollideUniverse, 3) :
        {f[1][i] : i \in 1..Len(f[1])} = CollideUniverse}

CollideInit ==
    /\ DataInit(CollideLayouts, {3}, {0}, {"sequential"}, {"hash16", "full"}, {FALSE})
    /\ CandStageIdle
    /\ GroupingIdle

SpecCollide == CollideInit /\ [][MRNext]_vars

\* Runs of main in every mode.  A single-mode run is given "auto" or v1, a
\* map or reduce run v1 or (wrongly) "auto".
MainRuns == 3

MainCands == 1

MainNext ==
    \/ \E mode \in {"map", "reduce"} : MainAbort(mode, AUTO) /\ UNCHANGED <<cvars, bcg>>
    \/ \E k \in ShardIds, v \in {AUTO, 1} : clock < MainRuns /\ MapStart(k, v) /\ UNCHANGED <<cvars, bcg>>
    \/ \E k \in ShardIds : MapStep(k) /\ UNCHANGED <<cvars, bcg>>
    \/ \E k \in ShardIds : MapEnd(k) /\ UNCHANGED <<cvars, bcg>>
    \/ \E v \in {AUTO, 1} : ReduceFail(v) /\ UNCHANGED <<cvars, bcg>>
    \/ \E v \in {AUTO, 1} : clock < MainRuns /\ ReduceStart(v) /\ UNCHANGED <<cvars, bcg>>
    \/ ReduceStep /\ UNCHANGED <<cvars, bcg>>
    \/ ReduceEnd /\ UNCHANGED <<cvars, bcg>>
    \/ \E v \in {AUTO, 1}, rm \in ResumeModes : clock < MainRuns /\ SingleStart(v, rm) /\ UNCHANGED <<cvars, bcg>>
    \/ SingleStep /\ UNCHANGED <<cvars, bcg>>
    \/ SingleEnd /\ UNCHANGED <<cvars, bcg>>

MainInit ==
    /\ DataInit(CandLayouts(MainCands), 1..MRShards, {0}, {"sequential"}, {"hash16"}, {FALSE})
    /\ CandStageIdle
    /\ GroupingIdle

SpecMain == MainInit /\ [][MainNext]_vars


(***************************************************************************)
(* Properties of the dataset stage                                         *)
(***************************************************************************)

\* A record without the time of the run that wrote it.
NoTime(rec) == [rec EXCEPT !.created_at = 0]

NoTimeSeq(lines) == [i \in 1..Len(lines) |-> NoTime(lines[i])]

NoTimeFiles(files) == [f \in 1..Len(files) |-> NoTimeSeq(files[f])]

Pair(rec) == <<rec.instruction, rec.output>>

CountPair(lines, p) == Cardinality({i \in 1..Len(lines) : Pair(lines[i]) = p})

\* The (file, line) positions of a sequence of files.
Positions(files) == UNION {{<<f, i>> : i \in 1..Len(files[f])} : f \in 1..Len(files)}

At(files, pos) == files[pos[1]][pos[2]]

DataFiles == <<shardFile, shardRej, finalFile, rejFile, changelog>>

\* C2 (cross-shard dedup): when run_reduce has completed a run that the
\* example limit does not cut short, then for any two lines of the shard
\* files it read (in the same file or in different ones) with identical
\* instruction and output, the dataset it wrote holds exactly one record with
\* that (instruction, output) pair.
C2_CrossShardDedup ==
    (lastReduce.done /\ cfg.limit_num_examples = 0 /\ ~cfg.dry_run) =>
        \A p \in Positions(lastReduce.input), q \in Positions(lastReduce.input) :
            (p # q /\ Pair(At(lastReduce.input, p)) = Pair(At(lastReduce.input, q)))
                => CountPair(lastReduce.out, Pair(At(lastReduce.input, p))) = 1

\* The key the partition is configured with: the question, or (the
\* default) the anchor chunk id, else the candidate id, else the question.
PartitionKey(shard_key, cand) ==
    IF shard_key = "question" THEN StrOrEmpty(cand.question)
    ELSE IF NonEmptyStr(cand.anchor_chunk_id) THEN Strip(cand.anchor_chunk_id)
    ELSE IF NonEmptyStr(cand.id) THEN Strip(cand.id)
    ELSE StrOrEmpty(cand.question)

\* shard_of_candidate lies in [0, num_shards) and is the same for candidates
\* with the same key.
PartitionByKey ==
    \A sk \in {"anchor_or_candidate", "question"}, n \in 1..MaxShards :
        \A c1 \in CandUniverse \cup CollideUniverse, c2 \in CandUniverse \cup CollideUniverse :
            /\ shard_of_candidate(sk, n, c1) \in 0..(n - 1)
            /\ PartitionKey(sk, c1) = PartitionKey(sk, c2)
               => shard_of_candidate(sk, n, c1) = shard_of_candidate(sk, n, c2)

\* All map workers of the campaign have run to completion.
MapsDone ==
    \A k \in 0..(cfg.num_shards - 1) : mp[k].pc = "idle" /\ shardFile[1][k].exists

\* Line pos of the input passes validation and is no exact duplicate: no
\* earlier valid line has the dedup fingerprint of its sample.
ValidAndNew(pos) ==
    LET c == At(candFiles, pos)
        Fp(x) == dedup_fingerprint(cfg.dedup_store, map_candidate(x, 1, 0))
    IN  /\ reject_reason(c) = ""
        /\ \A q \in Positions(candFiles) :
              (q[1] < pos[1] \/ (q[1] = pos[1] /\ q[2] < pos[2]))
              => \/ reject_reason(At(candFiles, q)) # ""
                 \/ Fp(At(candFiles, q)) # Fp(c)

\* The shard files (of version v1) that hold the sample of candidate c.
ShardsHolding(c) ==
    {k \in ShardIds : \E i \in 1..Len(shardFile[1][k].lines) :
        LET l == shardFile[1][k].lines[i] IN
        /\ l.candidate_id = c.id /\ l.anchor_chunk_id = c.anchor_chunk_id
        /\ l.instruction = Strip(c.question) /\ l.output = Strip(c.answer)}

\* C3 (deterministic partition): shard_of_candidate depends on the
\* configured key and num_shards only and lies in [0, num_shards); every
\* input line is claimed by exactly one of the workers 0..num_shards-1; and
\* when all num_shards workers have run (without an example limit), every
\* candidate that passes validation and is not an exact duplicate is in
\* exactly one shard file.
C3_DeterministicPartition ==
    /\ PartitionByKey
    /\ \A pos \in Positions(candFiles) :
          Cardinality({k \in 0..(cfg.num_shards - 1) :
              shard_of_candidate(cfg.shard_key, cfg.num_shards, At(candFiles, pos)) = k}) = 1
    /\ \A pos \in Positions(candFiles) :
          Cardinality(ShardsHolding(At(candFiles, pos))) <= 1
    /\ (MapsDone /\ cfg.limit_num_examples = 0 /\ ~cfg.dry_run) =>
          \A pos \in Positions(candFiles) :
              ValidAndNew(pos) => Cardinality(ShardsHolding(At(candFiles, pos))) = 1

\* Two workers have run and each has written a candidate to its shard file.
C3_Witness ==
    /\ cfg.num_shards = 2 /\ MapsDone /\ cfg.limit_num_examples = 0
    /\ shardFile[1][0].lines # <<>> /\ shardFile[1][1].lines # <<>>
    /\ TotalLen(candFiles) = 2

\* A step in which run_reduce is called.
ReduceInvoked ==
    \/ lastCall' # lastCall /\ lastCall'.mode = "reduce"
    \/ rd.pc = "idle" /\ rd'.pc = "run"

SomeShardMissing(v) == \E i \in 0..(cfg.num_shards - 1) : ~shardFile[v][i].exists

\* C7 (missing shard is fatal): a call of run_reduce while one of
\* shard_00 .. shard_(num_shards-1) is missing raises FileNotFoundError; the
\* reduce loop is not entered and the dataset file, the rejects file and the
\* changelog are neither created nor modified.
C7_MissingShardFatal ==
    [][ (ReduceInvoked /\ SomeShardMissing(1)) =>
            /\ lastCall'.outcome = "FileNotFoundError"
            /\ rd' = rd
            /\ UNCHANGED <<finalFile, rejFile, changelog>> ]_vars

\* run_reduce has failed while shard_00 existed and shard_01 did not.
C7_Witness ==
    /\ lastCall.mode = "reduce" /\ lastCall.outcome = "FileNotFoundError"
    /\ cfg.num_shards = 2
    /\ shardFile[1][0].exists /\ ~shardFile[1][1].exists

\* A step in which main is called.
MainInvoked ==
    \/ lastCall' # lastCall
    \/ \E k \in ShardIds : mp[k].pc = "idle" /\ mp'[k].pc = "run"
    \/ rd.pc = "idle" /\ rd'.pc = "run"
    \/ sg.pc = "idle" /\ sg'.pc = "run"

\* v(N+1) for the largest existing <dataset_name>_v<N>.jsonl, v1 without one.
NextVersionOf(final) ==
    IF \A v \in Versions : ~final[v].exists THEN 1
    ELSE (CHOOSE m \in Versions :
             final[m].exists /\ \A n \in Versions : final[n].exists => n <= m) + 1

\* C8 (explicit version in sharded modes): a call of main with version
\* "auto" in mode map or reduce raises ValueError, starts no run_map and no
\* run_reduce and leaves every shard file, dataset file, rejects file and the
\* changelog as they were; in single mode "auto" runs run_single with the
\* version inferred from the existing dataset files.
C8_ExplicitVersion ==
    [][ (MainInvoked /\ lastCall'.version = AUTO) =>
            IF lastCall'.mode \in {"map", "reduce"}
            THEN /\ lastCall'.outcome = "ValueError"
                 /\ mp' = mp /\ rd' = rd /\ sg' = sg
                 /\ UNCHANGED DataFiles
            ELSE /\ sg'.pc = "run"
                 /\ sg'.version = NextVersionOf(finalFile) ]_vars

\* main has refused a map run with version "auto" while a dataset existed.
C8_Witness ==
    /\ lastCall = [mode |-> "map", version |-> AUTO, outcome |-> "ValueError"]
    /\ finalFile[1].exists /\ finalFile[1].lines # <<>>

InBounds(rec) ==
    /\ min_question_chars <= Len(rec.instruction)
    /\ Len(rec.instruction) <= max_question_chars
    /\ min_answer_chars <= Len(rec.output)
    /\ Len(rec.output) <= max_answer_chars

\* C9 (length invariants): every record of every dataset file, written by
\* run_single or by run_map followed by run_reduce, has an instruction of
\* min_question_chars..max_question_chars characters and an output of
\* min_answer_chars..max_answer_chars characters.
C9_LengthInvariants ==
    \A v \in Versions : \A i \in 1..Len(finalFile[v].lines) : InBounds(finalFile[v].lines[i])

\* run_reduce has written a dataset with a record whose question was longer
\* in the candidate file (it was stripped).
C9_Witness ==
    /\ lastReduce.done /\ Len(lastReduce.out) = 1
    /\ finalFile[1].lines = lastReduce.out
    /\ \E pos \in Positions(candFiles) :
          Len(At(candFiles, pos).question) > Len(lastReduce.out[1].instruction)

\* C10 (idempotent reduce): two completed runs of run_reduce over the same
\* shard files (equal but for the time stamps of the map runs) have the same
\* kept count and wrote the same records with the same ids in the same order
\* (equal but for created_at, the time of the reduce run).
C10_IdempotentReduce ==
    (prevReduce.done /\ lastReduce.done
     /\ NoTimeFiles(prevReduce.input) = NoTimeFiles(lastReduce.input))
        => /\ prevReduce.c.kept = lastReduce.c.kept
           /\ NoTimeSeq(prevReduce.out) = NoTimeSeq(lastReduce.out)

\* run_reduce has run twice over the same two shard files and kept a record
\* and removed a duplicate each time.
C10_Witness ==
    /\ prevReduce.done /\ lastReduce.done
    /\ prevReduce.input = lastReduce.input
    /\ cfg.num_shards = 2
    /\ lastReduce.c.kept = 1 /\ lastReduce.c.duped = 1
    /\ Len(lastReduce.out) = 1


(***************************************************************************)
(* generate_qa_candidates.py: pure functions                               *)
(***************************************************************************)

\* Chunk ids, languages and trust levels are atomic strings; a chunk's
\* content, questions and answers are sequences of characters.
Chunk(id, doc, lang, trust, content) ==
    [chunk_id |-> id, doc_id |-> doc, language |-> lang, trust_level |-> trust,
     content |-> content]

\* str(v) of a chunk id: the id itself, "None" for a missing one.
StrId(v) == IF v = NoneAtom THEN "None" ELSE v

\* v.strip() of an id the language model sends.
StripId(v) ==
    CASE v = " a0" -> "a0"
      [] v = "a1 " -> "a1"
      [] v = " "   -> ""
      [] OTHER     -> v

filter_languages_allowed == {"de", "en"}

filter_trust_levels_allowed == {"high", "medium"}

min_content_chars == 2

\* is_candidate_chunk, with no restriction configured on chunk roles,
\* content types and artifact roles.
is_candidate_chunk(chunk) ==
    /\ chunk.language \in filter_languages_allowed
    /\ chunk.trust_level \in filter_trust_levels_allowed
    /\ chunk.content # None
    /\ Strip(chunk.content) # <<>>
    /\ ~(min_content_chars > 0 /\ Len(Strip(chunk.content)) < min_content_chars)

\* chunks[idx-1], chunks[idx-2], ... then chunks[idx+1], chunks[idx+2], ...
get_local_neighbors(chunks, idx, n_before, n_after) ==
    LET nb == IF idx - 1 < n_before THEN idx - 1 ELSE n_before
        na == IF Len(chunks) - idx < n_after THEN Len(chunks) - idx ELSE n_after
    IN  [o \in 1..nb |-> chunks[idx - o]] \o [o \in 1..na |-> chunks[idx + o]]

\* round() of the rational num/den (den > 0, num >= 0): to the nearest
\* integer, a tie to the even one.
RoundHalfEven(num, den) ==
    LET q == num \div den
        r == num % den
    IN  IF 2 * r < den THEN q
        ELSE IF 2 * r > den THEN q + 1
        ELSE IF q % 2 = 0 THEN q ELSE q + 1

\* sampling.max_qa_per_document is an integer ([kind |-> "int", value]) or a
\* mapping with mode "fixed" (value) or "adaptive" (min, max,
\* per_100_chunks; per_100k_chars is left at 0.0).
compute_max_qa_per_document(max_cfg, num_chunks) ==
    CASE max_cfg.kind = "int"      -> max_cfg.value
      [] max_cfg.kind = "adaptive" ->
            LET v  == RoundHalfEven(num_chunks * max_cfg.per_100_chunks, 100)
                lo == IF max_cfg.max < v THEN max_cfg.max ELSE v
            IN  IF max_cfg.min > lo THEN max_cfg.min ELSE lo
      [] max_cfg.kind = "fixed"    -> max_cfg.value
      [] OTHER                     -> 50

\* A remaining quota: None (no limit) or an integer.
Unlimited == [limited |-> FALSE, n |-> 0]

Limited(n) == [limited |-> TRUE, n |-> n]

\* Faulty variant of quota_reached: a quota is never seen as used up.
quota_reached_never(remaining) == remaining.limited /\ remaining.n < 0 /\ remaining.n > 0

\* "remaining is not None and remaining <= 0" (per document) and
\* "isinstance(remaining, int) and remaining <= 0" (global).
quota_reached(remaining) == remaining.limited /\ remaining.n <= 0

\* remaining_qa_for_document at the start of process_semantic_file: None
\* for an integer setting <= 0.
initial_doc_quota(max_cfg, num_chunks) ==
    IF max_cfg.kind = "int" /\ max_cfg.value <= 0 THEN Unlimited
    ELSE Limited(compute_max_qa_per_document(max_cfg, num_chunks))

\* An item of an evidence list the model sends: a string or something else.
EvStr(v) == [isstr |-> TRUE, v |-> v]

EvOther == [isstr |-> FALSE, v |-> "7"]

\* A value the model sends as evidence: a list of items, or something else.
EvList(items) == [islist |-> TRUE, items |-> items]

NoEvList == [islist |-> FALSE, items |-> <<>>]

RECURSIVE normalize_items(_)
normalize_items(items) ==
    IF items = <<>> THEN <<>>
    ELSE LET v == Head(items)
             rest == normalize_items(Tail(items))
         IN  IF v.isstr /\ StripId(v.v) # "" THEN <<StripId(v.v)>> \o rest ELSE rest

normalize_chunk_id_list(x) == IF ~x.islist THEN <<>> ELSE normalize_items(x.items)

\* Faulty variant of slim_chunks: seen_ids is not consulted, so a chunk id
\* that was slimmed before is slimmed again.
RECURSIVE slim_chunks_no_dedup(_, _)
slim_chunks_no_dedup(chs, seen) ==
    IF chs = <<>> THEN <<>>
    ELSE LET cid == StrId(Head(chs).chunk_id) IN
         IF cid = "" THEN slim_chunks_no_dedup(Tail(chs), seen)
         ELSE <<[chunk_id |-> cid, doc_id |-> Head(chs).doc_id,
                 content |-> Head(chs).content]>>
              \o slim_chunks_no_dedup(Tail(chs), seen \cup {cid})

\* slim_chunk applied to chs in order, seen being the ids slimmed so far.
RECURSIVE slim_chunks(_, _)
slim_chunks(chs, seen) ==
    IF chs = <<>> THEN <<>>
    ELSE LET cid == StrId(Head(chs).chunk_id) IN
         IF cid = "" \/ cid \in seen THEN slim_chunks(Tail(chs), seen)
         ELSE <<[chunk_id |-> cid, doc_id |-> Head(chs).doc_id,
                 content |-> Head(chs).content]>>
              \o slim_chunks(Tail(chs), seen \cup {cid})

IdsOf(group) == {group[i].chunk_id : i \in 1..Len(group)}

\* s[i:j] of Python for 0 <= i and 0 <= j.
Slice(s, i, j) ==
    LET hi == IF j < Len(s) THEN j ELSE Len(s)
    IN  IF i >= hi THEN <<>> ELSE SubSeq(s, i + 1, hi)

\* Faulty variant of window_groups: the loop does not break when
\* max_groups_per_chunk groups have been built.
RECURSIVE window_groups_unbounded(_, _, _, _, _, _, _)
window_groups_unbounded(base_prefilled, faiss_slim, remaining_slots, min_group_size, max_groups_per_chunk, i, groups) ==
    IF i >= Len(faiss_slim) THEN groups
    ELSE LET g  == base_prefilled \o Slice(faiss_slim, i, i + remaining_slots)
             gs == IF Len(g) >= min_group_size THEN Append(groups, g) ELSE groups
         IN  window_groups_unbounded(base_prefilled, faiss_slim, remaining_slots,
                                     min_group_size, max_groups_per_chunk,
                                     i + remaining_slots, gs)

\* The while loop of build_context_groups from index i on.
RECURSIVE window_groups(_, _, _, _, _, _, _)
window_groups(base_prefilled, faiss_slim, remaining_slots, min_group_size, max_groups_per_chunk, i, groups) ==
    IF i >= Len(faiss_slim) THEN groups
    ELSE LET g  == base_prefilled \o Slice(faiss_slim, i, i + remaining_slots)
             gs == IF Len(g) >= min_group_size THEN Append(groups, g) ELSE groups
         IN  IF max_groups_per_chunk > 0 /\ Len(gs) >= max_groups_per_chunk THEN gs
             ELSE window_groups(base_prefilled, faiss_slim, remaining_slots,
                                min_group_size, max_groups_per_chunk,
                                i + remaining_slots, gs)

\* Faulty variant of build_context_groups: the check that the vector
\* neighbours can fill the base up to min_group_size is missing, and the
\* base is returned however small it is.
build_context_groups_underfilled(candidate, local_neighbors, faiss_neighbors, min_group_size, max_group_size, max_groups_per_chunk) ==
    LET base       == slim_chunks(<<candidate>> \o local_neighbors, {})
        faiss_slim == slim_chunks(faiss_neighbors, IdsOf(base))
        need       == min_group_size - Len(base)
        enough     == Len(base) >= min_group_size
        prefilled  == IF enough THEN base ELSE base \o Slice(faiss_slim, 0, need)
        start_idx  == IF enough THEN 0 ELSE need
        base_prefilled == IF Len(prefilled) > max_group_size
                          THEN Slice(prefilled, 0, max_group_size) ELSE prefilled
        remaining_slots == max_group_size - Len(base_prefilled)
    IN  IF remaining_slots <= 0 \/ start_idx >= Len(faiss_slim)
        THEN <<base_prefilled>>
        ELSE LET groups == window_groups(base_prefilled, faiss_slim, remaining_slots,
                                         min_group_size, max_groups_per_chunk,
                                         start_idx, <<>>)
             IN  IF groups = <<>> THEN <<base_prefilled>> ELSE groups

\* Faulty variant of build_context_groups: the local neighbours are not part
\* of the base of every group but are windowed with the vector neighbours.
build_context_groups_pooled(candidate, local_neighbors, faiss_neighbors, min_group_size, max_group_size, max_groups_per_chunk) ==
    LET base       == slim_chunks(<<candidate>>, {})
        faiss_slim == slim_chunks(local_neighbors \o faiss_neighbors, IdsOf(base))
        need       == min_group_size - Len(base)
        enough     == Len(base) >= min_group_size
        prefilled  == IF enough THEN base ELSE base \o Slice(faiss_slim, 0, need)
        start_idx  == IF enough THEN 0 ELSE need
        base_prefilled == IF Len(prefilled) > max_group_size
                          THEN Slice(prefilled, 0, max_group_size) ELSE prefilled
        remaining_slots == max_group_size - Len(base_prefilled)
    IN  IF ~enough /\ Len(faiss_slim) < need THEN <<>>
        ELSE IF remaining_slots <= 0 \/ start_idx >= Len(faiss_slim)
             THEN <<base_prefilled>>
        ELSE LET groups == window_groups(base_prefilled, faiss_slim, remaining_slots,
                                         min_group_size, max_groups_per_chunk,
                                         start_idx, <<>>)
             IN  IF groups = <<>> THEN <<base_prefilled>> ELSE groups

build_context_groups(candidate, local_neighbors, faiss_neighbors, min_group_size, max_group_size, max_groups_per_chunk) ==
    LET base       == slim_chunks(<<candidate>> \o local_neighbors, {})
        faiss_slim == slim_chunks(faiss_neighbors, IdsOf(base))
        need       == min_group_size - Len(base)
        enough     == Len(base) >= min_group_size
        prefilled  == IF enough THEN base ELSE base \o Slice(faiss_slim, 0, need)
        start_idx  == IF enough THEN 0 ELSE need
        base_prefilled == IF Len(prefilled) > max_group_size
                          THEN Slice(prefilled, 0, max_group_size) ELSE prefilled
        remaining_slots == max_group_size - Len(base_prefilled)
    IN  IF ~enough /\ Len(faiss_slim) < need THEN <<>>
        ELSE IF remaining_slots <= 0 \/ start_idx >= Len(faiss_slim)
             THEN IF max_groups_per_chunk > 0
                  THEN Slice(<<base_prefilled>>, 0, max_groups_per_chunk)
                  ELSE <<base_prefilled>>
        ELSE LET groups == window_groups(base_prefilled, faiss_slim, remaining_slots,
                                         min_group_size, max_groups_per_chunk,
                                         start_idx, <<>>)
             IN  IF groups = <<>> THEN <<base_prefilled>> ELSE groups

\* make_candidate_id: the anchor id and the digest of the stripped question,
\* the stripped answer and the index of the object in the response.
make_candidate_id(anchor_chunk_id, qa_index, payload) ==
    <<anchor_chunk_id,
      <<"sha1_16", Strip(StrOrEmpty(payload.question)), Strip(StrOrEmpty(payload.answer)),
        qa_index>>>>


(***************************************************************************)
(* generate_qa_candidates.py: inputs                                       *)
(***************************************************************************)

NumDocs == 2

MaxQa == 2

MaxCandRuns == 2

max_retries == 1

a0 == Chunk("a0", "A", "de", "high", <<"a", "b">>)

a1 == Chunk("a1", "A", "en", "medium", <<"a", "b", "c">>)

\* Not a candidate chunk: its language is not allowed.
ax == Chunk("ax", "A", "fr", "high", <<"a", "b">>)

b0 == Chunk("b0", "B", "de", "high", <<"a", "b", " ">>)

v1 == Chunk("v1", "V", "de", "high", <<"a", "b">>)

v2 == Chunk("v2", "V", "en", "high", <<"a", "b">>)

\* The filtered vector neighbours the retrieval client may return.
NbLists == {<<>>, <<v1, v2>>, <<a1, v1>>}

\* An object of the array the generate pass returns.
Qa(q, a, difficulty, evidence) ==
    [isdict |-> TRUE, question |-> q, answer |-> a, difficulty |-> difficulty,
     evidence |-> evidence]

NotADict ==
    [isdict |-> FALSE, question |-> None, answer |-> None, difficulty |-> "",
     evidence |-> NoEvList]

QaUniverse ==
    { Qa(<<"a", "b">>, <<"c", "d">>, "basic", EvList(<<EvStr(" a0")>>)),
      Qa(<<"e", "f">>, <<"g", "h">>, "advanced",
         EvList(<<EvOther, EvStr(" "), EvStr("a1"), EvStr("zz")>>)),
      Qa(<<"e", "f">>, <<"g", "h">>, "hard", NoEvList),
      Qa(<<" ">>, <<"g", "h">>, "basic", EvList(<<>>)),
      NotADict }

QaLists == SeqsUpTo(QaUniverse, MaxQa)

\* Answers of one valid object.
QaValid == {<<qa>> : qa \in {q \in QaUniverse : q.isdict /\ q.difficulty = "basic"
                                                /\ Strip(q.question) # <<>>}}

\* The outcome of one request to the language-model service.
AttemptOutcomes == {"ok", "error", "not_found"}

AttemptSeqs == [1..(max_retries + 1) -> AttemptOutcomes]


(***************************************************************************)
(* generate_qa_candidates.py: main and process_semantic_file               *)
(***************************************************************************)

\* call_llm_ollama_with_retries over the outcomes of the successive
\* requests: whether a request succeeded, the number of requests made, and
\* the error raised ("" when the call returns).
RECURSIVE llm_attempts(_, _, _)
llm_attempts(outcomes, attempt, retries) ==
    IF outcomes[attempt + 1] = "ok" THEN [ok |-> TRUE, tries |-> attempt + 1, err |-> ""]
    ELSE IF attempt >= retries
    THEN [ok |-> FALSE, tries |-> attempt + 1, err |-> outcomes[attempt + 1]]
    ELSE llm_attempts(outcomes, attempt + 1, retries)

\* Faulty variant of call_llm_ollama_with_retries: the error of the last
\* attempt is swallowed and the call returns as if it had succeeded.
call_llm_ollama_swallows_error(outcomes, retries) ==
    [ok |-> TRUE, tries |-> llm_attempts(outcomes, 0, retries).tries, err |-> ""]

\* Faulty variant of call_llm_ollama_with_retries: last_err keeps the error
\* of the first attempt.
call_llm_ollama_raises_first_error(outcomes, retries) ==
    [llm_attempts(outcomes, 0, retries) EXCEPT !.err = IF @ = "" THEN "" ELSE outcomes[1]]

call_llm_ollama_with_retries(outcomes, retries) == llm_attempts(outcomes, 0, retries)

\* Faulty variant of read_existing_anchor_ids: the existing output is not read.
read_existing_anchor_ids_none(file) == IF file.exists THEN <<>> ELSE <<>>

read_existing_anchor_ids(file) ==
    IF ~file.exists THEN <<>>
    ELSE [i \in 1..Len(file.lines) |-> file.lines[i].anchor_chunk_id]

\* Faulty variant of open_output_file: in resume mode the anchor ids are
\* read and the file is then opened with mode "w".
open_output_file_resume_truncates(file, resume_mode) ==
    LET f == IF resume_mode = "overwrite" /\ file.exists THEN NoFile ELSE file
    IN  IF resume_mode = "append"
        THEN [file |-> open_a(f), processed |-> read_existing_anchor_ids(f)]
        ELSE IF resume_mode = "resume"
        THEN [file |-> open_w(f), processed |-> read_existing_anchor_ids(f)]
        ELSE [file |-> open_w(f), processed |-> <<>>]

\* The opened file and the anchor ids already in it.
open_output_file(file, resume_mode) ==
    LET f == IF resume_mode = "overwrite" /\ file.exists THEN NoFile ELSE file
    IN  IF resume_mode \in {"append", "resume"}
        THEN [file |-> open_a(f), processed |-> read_existing_anchor_ids(f)]
        ELSE [file |-> open_w(f), processed |-> <<>>]

\* Faulty variant of sharded_files: the list is not filtered by shard id.
sharded_files_unfiltered(num_files, num_shards, shard_id) ==
    [i \in 1..num_files |-> i]

\* The documents (by position in the sorted file list) of one worker.
sharded_files(num_files, num_shards, shard_id) ==
    LET all == [i \in 1..num_files |-> i]
        Mine(i) == (i - 1) % num_shards = shard_id
    IN  IF num_shards = 1 THEN all ELSE SelectSeq(all, Mine)

\* Faulty variant of worker_global_limit: the limit is divided with "//",
\* which rounds down.
worker_global_limit_floor(global_qa_limit, num_shards) ==
    IF global_qa_limit > 0 /\ num_shards > 1
    THEN global_qa_limit \div num_shards
    ELSE global_qa_limit

\* global_qa_limit of one worker: ceil(limit / num_shards) for several shards.
worker_global_limit(global_qa_limit, num_shards) ==
    IF global_qa_limit > 0 /\ num_shards > 1
    THEN (global_qa_limit + num_shards - 1) \div num_shards
    ELSE global_qa_limit

initial_global_quota(global_qa_limit, num_shards) ==
    LET g == worker_global_limit(global_qa_limit, num_shards)
    IN  IF g > 0 THEN Limited(g) ELSE Unlimited

qa_valid(qa_obj) ==
    /\ qa_obj.isdict
    /\ NonEmptyStr(qa_obj.question)
    /\ NonEmptyStr(qa_obj.answer)
    /\ qa_obj.difficulty \in {"basic", "intermediate", "advanced"}

all_chunk_ids(context_group) == [i \in 1..Len(context_group) |-> context_group[i].chunk_id]

\* The loop of build_context_text_for_prompt from chunk idx on, total being
\* the length of the blocks rendered so far: the blocks rendered, each
\* "[Chunk idx | chunk_id=.. | doc_id=..]", the text and an empty line.
\* The element "..." is the one character U+2026 of the truncation mark.
RECURSIVE context_blocks(_, _, _, _, _)
context_blocks(context_group, idx, total, max_chars_per_chunk, max_total_chars) ==
    IF idx > Len(context_group) THEN <<>>
    ELSE LET ch == context_group[idx]
             stripped == Strip(ch.content)
             text == IF max_chars_per_chunk > 0 /\ Len(stripped) > max_chars_per_chunk
                     THEN SubSeq(stripped, 1, max_chars_per_chunk) \o <<" ", "...">>
                     ELSE stripped
             block_len == 30 + Len(IntStr(idx)) + Len(StrId(ch.chunk_id))
                             + Len(StrId(ch.doc_id)) + 1 + Len(text) + 1
         IN  IF max_total_chars > 0 /\ total + block_len > max_total_chars THEN <<>>
             ELSE <<[idx |-> idx, chunk_id |-> ch.chunk_id, doc_id |-> ch.doc_id,
                     text |-> text]>>
                  \o context_blocks(context_group, idx + 1, total + block_len,
                                    max_chars_per_chunk, max_total_chars)

build_context_text_for_prompt(context_group, max_chars_per_chunk, max_total_chars) ==
    context_blocks(context_group, 1, 0, max_chars_per_chunk, max_total_chars)

\* The prompt of a request: the template with {CONTEXT} replaced by the
\* blocks of the group; the rest of the template names no chunk.
render_prompt(context_group, max_chars_per_chunk, max_total_chars) ==
    build_context_text_for_prompt(context_group, max_chars_per_chunk, max_total_chars)

\* Faulty variant of evidence_of: the ids are not checked against the group.
evidence_of_unfiltered(qa_obj, context_group) ==
    LET evidence == normalize_chunk_id_list(qa_obj.evidence)
    IN  IF evidence = <<>> THEN all_chunk_ids(context_group) ELSE evidence

\* Faulty variant of evidence_of: no fallback to the chunk ids of the group
\* when no id of the evidence list is left.
evidence_of_no_fallback(qa_obj, context_group) ==
    LET Allowed(cid) == cid \in IdsOf(context_group)
    IN  SelectSeq(normalize_chunk_id_list(qa_obj.evidence), Allowed)

\* Faulty variant of evidence_of: an evidence list with an id outside the
\* group is given up as a whole, and all chunk ids of the group are taken.
evidence_of_all_or_nothing(qa_obj, context_group) ==
    LET Allowed(cid) == cid \in IdsOf(context_group)
        evidence == normalize_chunk_id_list(qa_obj.evidence)
    IN  IF evidence = <<>> \/ SelectSeq(evidence, Allowed) # evidence
        THEN all_chunk_ids(context_group) ELSE evidence

evidence_of(qa_obj, context_group) ==
    LET Allowed(cid) == cid \in IdsOf(context_group)
        evidence == SelectSeq(normalize_chunk_id_list(qa_obj.evidence), Allowed)
    IN  IF evidence = <<>> THEN all_chunk_ids(context_group) ELSE evidence

out_record(chunk_id, qa_idx, qa_obj, context_group) ==
    [id |-> make_candidate_id(chunk_id, qa_idx, qa_obj),
     anchor_chunk_id |-> chunk_id,
     context_chunks |-> all_chunk_ids(context_group),
     source_chunks |-> evidence_of(qa_obj, context_group),
     question |-> qa_obj.question,
     answer |-> qa_obj.answer]

\* The loop over qa_list from its i-th object on.  st holds the remaining
\* quotas (doc, glob), the lines written (lines) and their number (n).
RECURSIVE qa_loop(_, _, _, _, _)
qa_loop(qa_list, i, context_group, chunk_id, st) ==
    IF i > Len(qa_list) \/ quota_reached(st.glob) THEN st
    ELSE IF ~qa_valid(qa_list[i]) THEN qa_loop(qa_list, i + 1, context_group, chunk_id, st)
    ELSE LET w == [st EXCEPT !.lines = Append(@, out_record(chunk_id, i - 1, qa_list[i],
                                                            context_group)),
                             !.n = @ + 1]
             d == IF w.doc.limited THEN [w EXCEPT !.doc.n = @ - 1] ELSE w
             g == IF d.glob.limited THEN [d EXCEPT !.glob.n = @ - 1] ELSE d
         IN  IF quota_reached(d.doc) THEN d
             ELSE IF quota_reached(g.glob) THEN g
             ELSE qa_loop(qa_list, i + 1, context_group, chunk_id, g)

\* main up to its loop over the semantic files of worker shard_id.
CandMainStart(shard_id) ==
    /\ cm.pc = "idle" /\ cp.pc = "idle"
    /\ cruns < MaxCandRuns
    /\ shard_id < qcfg.num_shards
    /\ LET files == sharded_files(Len(semFiles), qcfg.num_shards, shard_id)
           quota == initial_global_quota(qcfg.global_qa_limit, qcfg.num_shards)
       IN  cm' = IF files = <<>> THEN IdleProc
                 ELSE [pc |-> "run", shard_id |-> shard_id, semantic_files |-> files,
                       fpos |-> 1, remaining_global |-> quota, quota |-> quota,
                       total_written_global |-> 0]
    /\ cruns' = cruns + 1
    /\ llmLog' = {}
    /\ UNCHANGED <<semFiles, qcfg, outFile, cp>>

\* The next file of main's loop: process_semantic_file up to its chunk loop.
CandFileStart ==
    /\ cm.pc = "run" /\ cp.pc = "idle"
    /\ cm.fpos <= Len(cm.semantic_files)
    /\ ~quota_reached(cm.remaining_global)
    /\ LET d      == cm.semantic_files[cm.fpos]
           chunks == semFiles[d]
           o      == open_output_file(outFile[d], qcfg.resume_mode)
       IN  IF chunks = <<>>
           THEN /\ cm' = [cm EXCEPT !.fpos = @ + 1]
                /\ UNCHANGED <<cp, outFile>>
           ELSE /\ cp' = [pc |-> "chunk", doc |-> d, idx |-> 1,
                          context_groups |-> <<>>, gi |-> 0,
                          remaining_qa_for_document |->
                              initial_doc_quota(qcfg.max_qa_per_document, Len(chunks)),
                          quota |-> initial_doc_quota(qcfg.max_qa_per_document, Len(chunks)),
                          processed_set |-> {o.processed[i] : i \in 1..Len(o.processed)},
                          written_any_for_chunk |-> 0, total_written |-> 0,
                          base |-> Len(o.file.lines), user_prompt |-> <<>>]
                /\ outFile' = [outFile EXCEPT ![d] = o.file]
                /\ UNCHANGED cm
    /\ UNCHANGED <<semFiles, qcfg, llmLog, cruns>>

\* The end of main's loop: no file left, or the global quota is used up.
CandMainEnd ==
    /\ cm.pc = "run" /\ cp.pc = "idle"
    /\ cm.fpos > Len(cm.semantic_files) \/ quota_reached(cm.remaining_global)
    /\ cm' = IdleProc
    /\ UNCHANGED <<semFiles, qcfg, outFile, cp, llmLog, cruns>>

\* One iteration of the chunk loop up to the loop over the context groups;
\* faiss_neighbors_filtered is what retrieval and filter return.
CandChunkStep(faiss_neighbors_filtered) ==
    /\ cp.pc = "chunk"
    /\ LET chunks == semFiles[cp.doc] IN
       IF cp.idx > Len(chunks) THEN cp' = [cp EXCEPT !.pc = "close"]
       ELSE
       LET chunk    == chunks[cp.idx]
           chunk_id == StrId(chunk.chunk_id)
           groups   == build_context_groups(
                           chunk,
                           get_local_neighbors(chunks, cp.idx, qcfg.n_before, qcfg.n_after),
                           faiss_neighbors_filtered,
                           qcfg.min_group_size, qcfg.max_group_size,
                           qcfg.max_groups_per_chunk)
       IN  /\ \A i \in 1..Len(faiss_neighbors_filtered) :
                 faiss_neighbors_filtered[i].chunk_id # chunk.chunk_id
           /\ cp' =
                IF qcfg.limit_num_chunks > 0 /\ cp.idx - 1 >= qcfg.limit_num_chunks
                THEN [cp EXCEPT !.pc = "close"]
                ELSE IF chunk_id = "" \/ chunk_id \in cp.processed_set
                        \/ ~is_candidate_chunk(chunk)
                THEN [cp EXCEPT !.idx = @ + 1]
                ELSE IF quota_reached(cp.remaining_qa_for_document)
                        \/ quota_reached(cm.remaining_global)
                THEN [cp EXCEPT !.pc = "close"]
                ELSE IF groups = <<>> THEN [cp EXCEPT !.idx = @ + 1]
                ELSE [cp EXCEPT !.pc = "group", !.context_groups = groups, !.gi = 1,
                                !.written_any_for_chunk = 0]
    /\ UNCHANGED <<semFiles, qcfg, outFile, cm, llmLog, cruns>>

AnchorId == StrId(semFiles[cp.doc][cp.idx].chunk_id)

GroupLoopEnds ==
    \/ cp.gi > Len(cp.context_groups)
    \/ quota_reached(cp.remaining_qa_for_document)
    \/ quota_reached(cm.remaining_global)

\* Faulty variant of CandChunkEnd: the chunk counts as processed whether or
\* not something was written for it.
CandChunkEnd_marks_always ==
    /\ cp.pc = "group" /\ GroupLoopEnds
    /\ cp' = [cp EXCEPT
                !.processed_set = @ \cup {AnchorId},
                !.pc = IF quota_reached(cm.remaining_global) THEN "close" ELSE "chunk",
                !.idx = IF quota_reached(cm.remaining_global) THEN @ ELSE @ + 1]
    /\ UNCHANGED <<semFiles, qcfg, outFile, cm, llmLog, cruns>>

\* The group loop of a chunk ends: the chunk counts as processed when
\* something was written for it, and the chunk loop goes on or breaks.
CandChunkEnd ==
    /\ cp.pc = "group" /\ GroupLoopEnds
    /\ cp' = [cp EXCEPT
                !.processed_set = IF cp.written_any_for_chunk > 0
                                  THEN @ \cup {AnchorId} ELSE @,
                !.pc = IF quota_reached(cm.remaining_global) THEN "close" ELSE "chunk",
                !.idx = IF quota_reached(cm.remaining_global) THEN @ ELSE @ + 1]
    /\ UNCHANGED <<semFiles, qcfg, outFile, cm, llmLog, cruns>>

\* A group in a dry run: nothing is requested.
CandDryRun ==
    /\ cp.pc = "group" /\ ~GroupLoopEnds /\ qcfg.dry_run
    /\ cp' = [cp EXCEPT !.gi = @ + 1]
    /\ UNCHANGED <<semFiles, qcfg, outFile, cm, llmLog, cruns>>

\* Pass 1 of a group: the plan request with its retries; plan_valid is
\* whether parse_plan_output accepts the answer.  With a plan, the user
\* prompt of the generate request is rendered from the group.
CandPlan(outcomes, plan_valid) ==
    /\ cp.pc = "group" /\ ~GroupLoopEnds /\ ~qcfg.dry_run
    /\ llmLog' = llmLog \cup {<<cp.doc, AnchorId, "plan">>}
    /\ cp' = IF call_llm_ollama_with_retries(outcomes, max_retries).ok /\ plan_valid
             THEN [cp EXCEPT !.pc = "generate",
                             !.user_prompt = render_prompt(cp.context_groups[cp.gi],
                                                 qcfg.max_chars_per_chunk,
                                                 qcfg.max_total_context_chars)]
             ELSE [cp EXCEPT !.gi = @ + 1]
    /\ UNCHANGED <<semFiles, qcfg, outFile, cm, cruns>>

\* Pass 2 of a group: the generate request with its retries, and the loop
\* over the objects of its answer qa_list.
CandGenerate(outcomes, qa_list) ==
    /\ cp.pc = "generate"
    /\ llmLog' = llmLog \cup {<<cp.doc, AnchorId, "generate">>}
    /\ LET ok == call_llm_ollama_with_retries(outcomes, max_retries).ok
           st == qa_loop(qa_list, 1, cp.context_groups[cp.gi], AnchorId,
                         [doc |-> cp.remaining_qa_for_document,
                          glob |-> cm.remaining_global, lines |-> <<>>, n |-> 0])
       IN  IF ~ok \/ qa_list = <<>>
           THEN /\ cp' = [cp EXCEPT !.pc = "group", !.gi = @ + 1]
                /\ UNCHANGED <<outFile, cm>>
           ELSE /\ cp' = [cp EXCEPT !.pc = "group", !.gi = @ + 1,
                                    !.remaining_qa_for_document = st.doc,
                                    !.written_any_for_chunk = @ + st.n,
                                    !.total_written = @ + st.n]
                /\ cm' = [cm EXCEPT !.remaining_global = st.glob]
                /\ outFile' = [outFile EXCEPT ![cp.doc] = WriteAll(@, st.lines)]
    /\ UNCHANGED <<semFiles, qcfg, cruns>>

\* out_f.close() and the return to main.
CandFileEnd ==
    /\ cp.pc = "close"
    /\ cm' = [cm EXCEPT !.total_written_global = @ + cp.total_written, !.fpos = @ + 1]
    /\ cp' = IdleProc
    /\ UNCHANGED <<semFiles, qcfg, outFile, llmLog, cruns>>

\* The configurations and inputs of the candidate stage.
CandInit(corpora, quotas, limits, modes, shards, dry) ==
    /\ semFiles \in corpora
    /\ qcfg \in [resume_mode : modes, dry_run : dry, max_qa_per_document : quotas,
                 global_qa_limit : limits, num_shards : shards,
                 min_group_size : {2}, max_group_size : {3}, max_groups_per_chunk : {2},
                 n_before : {1}, n_after : {1}, limit_num_chunks : {0},
                 max_chars_per_chunk : {1200}, max_total_context_chars : {0}]
    /\ outFile = [d \in 1..NumDocs |-> NoFile]
    /\ cm = IdleProc
    /\ cp = IdleProc
    /\ llmLog = {}
    /\ cruns = 0

IntQuota(n) == [kind |-> "int", value |-> n]

Corpora == {<<<<a0, a1>>, <<b0>>>>, <<<<ax, a0>>, <<>>>>}

\* The steps of the candidate stage with at most runs runs of main and the
\* given answers of retrieval and language model.
CandSteps(runs, nbLists, attemptSeqs, qaLists) ==
    \/ \E k \in ShardIds : cruns < runs /\ CandMainStart(k) /\ UNCHANGED <<dvars, bcg>>
    \/ CandFileStart /\ UNCHANGED <<dvars, bcg>>
    \/ CandMainEnd /\ UNCHANGED <<dvars, bcg>>
    \/ \E nbs \in nbLists : CandChunkStep(nbs) /\ UNCHANGED <<dvars, bcg>>
    \/ CandChunkEnd /\ UNCHANGED <<dvars, bcg>>
    \/ CandDryRun /\ UNCHANGED <<dvars, bcg>>
    \/ \E o \in attemptSeqs, pv \in BOOLEAN : CandPlan(o, pv) /\ UNCHANGED <<dvars, bcg>>
    \/ \E o \in attemptSeqs, l \in qaLists : CandGenerate(o, l) /\ UNCHANGED <<dvars, bcg>>
    \/ CandFileEnd /\ UNCHANGED <<dvars, bcg>>

AdaptiveQuota == [kind |-> "adaptive", min |-> 1, max |-> 2, per_100_chunks |-> 100]

\* One run of main of one worker, any answers.
CandNext == CandSteps(1, NbLists, AttemptSeqs, QaLists)

\* Every combination of a per-document quota (none, 1, adaptive) and a
\* global limit (none, 1, 2) but the one without any quota.
CandidatesInit ==
    /\ \/ CandInit(Corpora, {IntQuota(1), AdaptiveQuota}, {0, 1, 2}, {"append"}, {1, 2},
                   {FALSE, TRUE})
       \/ CandInit(Corpora, {IntQuota(0)}, {1, 2}, {"append"}, {1, 2}, {FALSE, TRUE})
    /\ DataStageIdle
    /\ GroupingIdle

SpecCand == CandidatesInit /\ [][CandNext]_vars

\* Two runs of main over the same documents; the model answers a generate
\* request with one valid object or with an empty array.
ResumeNext == CandSteps(MaxCandRuns, NbLists, AttemptSeqs, QaValid \cup {<<>>})

ResumeInit ==
    /\ CandInit(Corpora, {IntQuota(0), IntQuota(1)}, {0, 1}, ResumeModes, {1},
                {FALSE, TRUE})
    /\ DataStageIdle
    /\ GroupingIdle

SpecResume == ResumeInit /\ [][ResumeNext]_vars

(***************************************************************************)
(* Properties of the candidate stage                                       *)
(***************************************************************************)

OutLines == UNION {{outFile[d].lines[i] : i \in 1..Len(outFile[d].lines)} : d \in 1..NumDocs}

Elems(seq) == {seq[i] : i \in 1..Len(seq)}

\* C1 (evidence containment): for every candidate record written by
\* process_semantic_file, whatever the model answered, source_chunks is a
\* non-empty list and each of its elements is an element of the record's
\* context_chunks.  (Group sizes are configured with
\* 1 <= min_group_size <= max_group_size.)
C1_EvidenceContainment ==
    \A rec \in OutLines :
        /\ rec.source_chunks # <<>>
        /\ Elems(rec.source_chunks) \subseteq Elems(rec.context_chunks)

\* A record was written for an answer whose evidence list named an id of
\* the group, an id outside it, a blank string and a non-string: only the
\* group's id was kept.
C1_Witness ==
    \E rec \in OutLines :
        /\ rec.source_chunks = <<"a1">>
        /\ rec.question = <<"e", "f">>
        /\ Len(rec.context_chunks) >= 2

\* The per-document quota of the running process_semantic_file is configured.
DocQuotaConfigured ==
    ~(qcfg.max_qa_per_document.kind = "int" /\ qcfg.max_qa_per_document.value <= 0)

\* The candidates the running process_semantic_file has written.
WrittenForDocument == Len(outFile[cp.doc].lines) - cp.base

\* C4 (per-document quota): in a run of process_semantic_file with a
\* per-document quota Q = compute_max_qa_per_document(...) configured, the
\* number of candidates written for the document in the run never exceeds Q.
C4_PerDocumentQuota ==
    (cp.pc # "idle" /\ DocQuotaConfigured) =>
        WrittenForDocument
            <= compute_max_qa_per_document(qcfg.max_qa_per_document, Len(semFiles[cp.doc]))

\* The quota of a document is used up while a context group of the current
\* chunk is still to be processed.
C4_Witness ==
    /\ cp.pc = "group" /\ DocQuotaConfigured
    /\ cp.gi <= Len(cp.context_groups)
    /\ WrittenForDocument
          = compute_max_qa_per_document(qcfg.max_qa_per_document, Len(semFiles[cp.doc]))
    /\ WrittenForDocument >= 1

\* The candidates written in the run of main (the output files are empty
\* before the first run).
WrittenInRun == TotalLen([d \in 1..NumDocs |-> outFile[d].lines])

\* C5 (global quota): in one worker run of main with global quota share
\* G > 0, the total number of candidates written across all documents never
\* exceeds G, also when per-document quotas are configured and exhausted.
C5_GlobalQuota ==
    (cruns = 1 /\ qcfg.global_qa_limit > 0) =>
        WrittenInRun <= worker_global_limit(qcfg.global_qa_limit, qcfg.num_shards)

\* C6 (resume): in resume_mode append or resume, an anchor chunk id of a line
\* of the output file that existed when process_semantic_file opened it is
\* skipped: no plan or generate request is made for it in the run and no
\* new line with that anchor_chunk_id is written.
C6_ResumeSkipsAnchors ==
    (cp.pc # "idle" /\ qcfg.resume_mode \in {"append", "resume"}) =>
        \A i \in 1..cp.base :
            LET anchor == outFile[cp.doc].lines[i].anchor_chunk_id IN
            /\ \A pass \in {"plan", "generate"} : <<cp.doc, anchor, pass>> \notin llmLog
            /\ \A j \in (cp.base + 1)..Len(outFile[cp.doc].lines) :
                  outFile[cp.doc].lines[j].anchor_chunk_id # anchor

\* A second run found a candidate of anchor a0 in the output file and has
\* written a candidate for another anchor of the document.
C6_Witness ==
    /\ cruns = 2 /\ cp.pc # "idle" /\ qcfg.resume_mode \in {"append", "resume"}
    /\ cp.base >= 1
    /\ outFile[cp.doc].lines[1].anchor_chunk_id = "a0"
    /\ Len(outFile[cp.doc].lines) > cp.base
    /\ <<cp.doc, "a1", "generate">> \in llmLog


(***************************************************************************)
(* Final ids                                                               *)
(***************************************************************************)

\* Two candidate lines that carry the same id and different questions.
SameIdUniverse ==
    { Cand(A1 \o <<":", "a">>, A1, <<"a", "b">>, <<"c", "d">>,
           "de", "high", <<"paper">>, <<A1>>),
      Cand(A1 \o <<":", "a">>, A1, <<"a", "b", "c">>, <<"c", "d">>,
           "de", "high", <<"paper">>, <<A1>>) }

\* A campaign over candidate files built from SameIdUniverse, under each id
\* strategy.
SameIdInit ==
    /\ DataInit(CandLayoutsOf(SameIdUniverse, 2), 1..MRShards, {0},
                {"sequential", "hash", "candidate"}, {"hash16"}, {FALSE})
    /\ CandStageIdle
    /\ GroupingIdle

SpecSameId == SameIdInit /\ [][MRNext]_vars

RequestsMade(outcomes) == 1..call_llm_ollama_with_retries(outcomes, max_retries).tries

\* The service answered one of the requests of the call with HTTP 404.
NotFoundAnswered(outcomes) == \E i \in RequestsMade(outcomes) : outcomes[i] = "not_found"

\* No request follows a request answered with HTTP 404.
NotFoundNotRetried(outcomes) ==
    \A i \in RequestsMade(outcomes) :
        outcomes[i] = "not_found" => \A j \in RequestsMade(outcomes) : j <= i

\* The step ends the run: neither process_semantic_file nor main goes on.
RunAborts == cp'.pc = "idle" /\ cm'.pc = "idle"

\* C12 (model not found): a plan or generate call in which the service
\* answers a request with HTTP 404 makes no further request, and the run
\* ends with that call: no further group, chunk or file is processed.
C12_ModelNotFoundFatal ==
    [][\A o \in AttemptSeqs :
          NotFoundAnswered(o) =>
              /\ \A pv \in BOOLEAN :
                     CandPlan(o, pv) => (NotFoundNotRetried(o) /\ RunAborts)
              /\ \A l \in QaLists :
                     CandGenerate(o, l) => (NotFoundNotRetried(o) /\ RunAborts)]_vars


\* Requests that succeed or fail with a transient HTTP or parse error.
TransientSeqs == [1..(max_retries + 1) -> {"ok", "error"}]

\* One run of main in which every answer of the model that arrives is a
\* valid plan or one valid object: a group is abandoned only when a call
\* has failed after its retries.
TransientNext ==
    \/ \E k \in ShardIds : cruns < 1 /\ CandMainStart(k) /\ UNCHANGED <<dvars, bcg>>
    \/ CandFileStart /\ UNCHANGED <<dvars, bcg>>
    \/ CandMainEnd /\ UNCHANGED <<dvars, bcg>>
    \/ \E nbs \in NbLists : CandChunkStep(nbs) /\ UNCHANGED <<dvars, bcg>>
    \/ CandChunkEnd /\ UNCHANGED <<dvars, bcg>>
    \/ CandDryRun /\ UNCHANGED <<dvars, bcg>>
    \/ \E o \in TransientSeqs : CandPlan(o, TRUE) /\ UNCHANGED <<dvars, bcg>>
    \/ \E o \in TransientSeqs, l \in QaValid : CandGenerate(o, l) /\ UNCHANGED <<dvars, bcg>>
    \/ CandFileEnd /\ UNCHANGED <<dvars, bcg>>

TransientInit ==
    /\ CandInit(Corpora, {IntQuota(0), IntQuota(2)}, {0}, {"append"}, {1}, {FALSE, TRUE})
    /\ DataStageIdle
    /\ GroupingIdle

SpecTransient == TransientInit /\ [][TransientNext]_vars

\* Every request of the call failed with a transient error.
RetriesExhausted(outcomes) == \A i \in 1..(max_retries + 1) : outcomes[i] = "error"

\* The step abandons the current group and nothing else: the group loop is
\* at the next group of the chunk, nothing is written, main is as before.
GroupAbandoned ==
    /\ cp' = [cp EXCEPT !.pc = "group", !.gi = @ + 1]
    /\ cm' = cm
    /\ outFile' = outFile

\* C13 (transient failures are local): a plan or generate call that still
\* fails with a transient error after its retries abandons the current
\* context group only; process_semantic_file goes on with the next group of
\* the chunk, and main is not affected.
C13_TransientFailuresLocal ==
    [][\A o \in TransientSeqs :
          RetriesExhausted(o) =>
              /\ CandPlan(o, TRUE) => GroupAbandoned
              /\ \A l \in QaValid : CandGenerate(o, l) => GroupAbandoned]_vars

\* The plan call of every group of chunk a0 failed after its retries (no
\* generate request was made for a0), and a candidate of the next chunk a1
\* of the document has been written in the same run.
C13_Witness ==
    /\ cp.pc # "idle" /\ cp.doc = 1
    /\ <<1, "a0", "plan">> \in llmLog
    /\ <<1, "a0", "generate">> \notin llmLog
    /\ \E i \in 1..Len(outFile[1].lines) : outFile[1].lines[i].anchor_chunk_id = "a1"


\* C14 (plan fallback): when the plan call returns an answer that
\* parse_plan_output refuses, the same group proceeds to the generate pass:
\* process_semantic_file is about to issue the generate request for it.
C14_PlanFallback ==
    [][\A o \in AttemptSeqs :
          (call_llm_ollama_with_retries(o, max_retries).ok /\ CandPlan(o, FALSE))
              => (cp'.pc = "generate" /\ cp'.gi = cp.gi)]_vars


(***************************************************************************)
(* build_context_groups on its own                                         *)
(***************************************************************************)

\* Largest number of local neighbours of the anchor.
MaxLocal == 2

\* Largest number of filtered vector neighbours of the anchor.
MaxFaiss == 3

\* Largest grouping.min_group_size and grouping.max_group_size.
MaxGroupSize == 4

\* Largest sampling.max_groups_per_chunk (0: no limit).
MaxGroupsPerChunk == 3

c0 == Chunk("c0", "C", "de", "high", <<"a", "b">>)

c1 == Chunk("c1", "C", "de", "high", <<"a", "b">>)

c2 == Chunk("c2", "C", "de", "high", <<"a", "b">>)

\* The arguments of a call: the anchor c1, local neighbours among c0 and c2,
\* vector neighbours among v1, v2 and the local neighbour c2, in any order
\* and with repetitions, and any group sizes and group limit.
GroupArgs ==
    [pc : {"call"}, candidate : {c1},
     local_neighbors : SeqsUpTo({c0, c2}, MaxLocal),
     faiss_neighbors : SeqsUpTo({c2, v1, v2}, MaxFaiss),
     min_group_size : 1..MaxGroupSize, max_group_size : 1..MaxGroupSize,
     max_groups_per_chunk : 0..MaxGroupsPerChunk,
     groups : {<<>>}]

\* The call of build_context_groups with the arguments drawn.
BuildContextGroups ==
    /\ bcg.pc = "call"
    /\ bcg' = [bcg EXCEPT !.pc = "done",
                          !.groups = build_context_groups(bcg.candidate, bcg.local_neighbors,
                                         bcg.faiss_neighbors, bcg.min_group_size,
                                         bcg.max_group_size, bcg.max_groups_per_chunk)]
    /\ UNCHANGED <<dvars, cvars>>

GroupsInit ==
    /\ bcg \in GroupArgs
    /\ DataStageIdle
    /\ CandStageIdle

SpecGroups == GroupsInit /\ [][BuildContextGroups]_vars

\* The chunk ids of a group, in order.
IdSeq(group) == [i \in 1..Len(group) |-> group[i].chunk_id]

\* C15 (context group invariant): for 1 <= min_group_size <= max_group_size,
\* every group that build_context_groups returns has between min_group_size
\* and max_group_size chunks, starts with the anchor chunk and holds no
\* chunk id twice.
C15_ContextGroupInvariant ==
    (bcg.pc = "done" /\ 1 <= bcg.min_group_size
     /\ bcg.min_group_size <= bcg.max_group_size) =>
        \A n \in 1..Len(bcg.groups) :
            LET g == bcg.groups[n] IN
            /\ bcg.min_group_size <= Len(g) /\ Len(g) <= bcg.max_group_size
            /\ g[1].chunk_id = StrId(bcg.candidate.chunk_id)
            /\ \A i \in 1..Len(g), j \in 1..Len(g) :
                   i # j => g[i].chunk_id # g[j].chunk_id

\* Two groups were returned for an anchor whose local neighbour c2 is also
\* among its vector neighbours.
C15_Witness ==
    /\ bcg.pc = "done"
    /\ bcg.min_group_size = 2 /\ bcg.max_group_size = 4
    /\ bcg.local_neighbors = <<c0, c2>>
    /\ bcg.faiss_neighbors = <<c2, v1, v2>>
    /\ Len(bcg.groups) = 2
    /\ IdSeq(bcg.groups[2]) = <<"c1", "c0", "c2", "v2">>


\* C16 (group count bound): for max_groups_per_chunk >= 1,
\* build_context_groups returns at most max_groups_per_chunk groups,
\* whatever the local and vector neighbours and the group sizes.
C16_GroupCountBound ==
    (bcg.pc = "done" /\ bcg.max_groups_per_chunk >= 1) =>
        Len(bcg.groups) <= bcg.max_groups_per_chunk

\* Three vector neighbours, one slot per group and a limit of two groups:
\* two groups were returned, the third window was not built.
C16_Witness ==
    /\ bcg.pc = "done"
    /\ bcg.max_groups_per_chunk = 2
    /\ bcg.min_group_size = 1 /\ bcg.max_group_size = 2
    /\ bcg.local_neighbors = <<>>
    /\ bcg.faiss_neighbors = <<c2, v1, v2>>
    /\ Len(bcg.groups) = 2
    /\ IdSeq(bcg.groups[2]) = <<"c1", "v1">>


\* The call of Scenario A: anchor c1, local neighbours c0 and c2, vector
\* neighbours v1 and v2, min_group_size 2, max_group_size 3 and
\* max_groups_per_chunk 2.
ScenarioA ==
    /\ bcg.pc = "done"
    /\ bcg.candidate = c1
    /\ bcg.local_neighbors = <<c0, c2>>
    /\ bcg.faiss_neighbors = <<v1, v2>>
    /\ bcg.min_group_size = 2 /\ bcg.max_group_size = 3
    /\ bcg.max_groups_per_chunk = 2

\* C18 (Scenario A), as claimed: the call of Scenario A returns exactly two
\* context groups, each of at most 3 chunks.
C18_ScenarioA_TwoGroups ==
    ScenarioA =>
        /\ Len(bcg.groups) = 2
        /\ \A n \in 1..Len(bcg.groups) : Len(bcg.groups[n]) <= 3

\* C18 (Scenario A), amended: the call of Scenario A returns exactly one
\* context group, the anchor with its two local neighbours [c1, c0, c2]; the
\* base fills max_group_size and no vector neighbour is used.
C18_ScenarioA_OneGroup ==
    ScenarioA =>
        /\ Len(bcg.groups) = 1
        /\ IdSeq(bcg.groups[1]) = <<"c1", "c0", "c2">>

\* build_context_groups has returned from the call of Scenario A.
C18_Witness == ScenarioA /\ bcg.groups # <<>>


\* The non-empty chunk ids of a list of chunks.
DistinctIds(chs) == {StrId(chs[i].chunk_id) : i \in 1..Len(chs)} \ {""}

\* The anchor and its distinct local neighbours are fewer than
\* min_group_size, and the distinct vector neighbours that are not among
\* them are fewer than the chunks that are missing.
InsufficientPool(candidate, local_neighbors, faiss_neighbors, min_group_size) ==
    LET base  == DistinctIds(<<candidate>> \o local_neighbors)
        extra == DistinctIds(faiss_neighbors) \ base
    IN  /\ Cardinality(base) < min_group_size
        /\ Cardinality(extra) < min_group_size - Cardinality(base)

\* build_context_groups returns no group exactly for an insufficient pool,
\* for every call of GroupArgs.
NoGroupsIffInsufficient ==
    \A args \in GroupArgs :
        (build_context_groups(args.candidate, args.local_neighbors, args.faiss_neighbors,
                              args.min_group_size, args.max_group_size,
                              args.max_groups_per_chunk) = <<>>)
        <=> InsufficientPool(args.candidate, args.local_neighbors, args.faiss_neighbors,
                             args.min_group_size)

\* The chunk loop of process_semantic_file is at a chunk that passes every
\* check before retrieval and grouping.
ReachesGrouping ==
    /\ cp.pc = "chunk" /\ cp.idx <= Len(semFiles[cp.doc])
    /\ ~(qcfg.limit_num_chunks > 0 /\ cp.idx - 1 >= qcfg.limit_num_chunks)
    /\ AnchorId # "" /\ AnchorId \notin cp.processed_set
    /\ is_candidate_chunk(semFiles[cp.doc][cp.idx])
    /\ ~quota_reached(cp.remaining_qa_for_document)
    /\ ~quota_reached(cm.remaining_global)

\* C17 (insufficient pool means skip): build_context_groups returns zero
\* groups exactly when the anchor and its distinct local neighbours are fewer
\* than min_group_size and the distinct filtered vector neighbours cannot
\* fill the gap.  process_semantic_file then skips the anchor: the chunk loop
\* is at the next chunk, and no request to the language model is made and
\* no candidate written.  In every other case at least one group is
\* returned, and the loop over the groups of the anchor starts.
C17_InsufficientPoolSkips ==
    [][/\ NoGroupsIffInsufficient
       /\ \A nbs \in NbLists :
            (ReachesGrouping /\ CandChunkStep(nbs)) =>
                LET chunks == semFiles[cp.doc]
                    local  == get_local_neighbors(chunks, cp.idx, qcfg.n_before, qcfg.n_after)
                    groups == build_context_groups(chunks[cp.idx], local, nbs,
                                  qcfg.min_group_size, qcfg.max_group_size,
                                  qcfg.max_groups_per_chunk)
                    short  == InsufficientPool(chunks[cp.idx], local, nbs, qcfg.min_group_size)
                IN  /\ (groups = <<>>) <=> short
                    /\ short => /\ cp' = [cp EXCEPT !.idx = @ + 1]
                                /\ llmLog' = llmLog /\ outFile' = outFile /\ cm' = cm
                    /\ ~short => /\ cp'.pc = "group"
                                 /\ Len(cp'.context_groups) >= 1]_vars

\* Chunk b0, the only chunk of its document, had no vector neighbour: the
\* chunk loop went past it without a request to the language model and
\* without a written candidate.
C17_Witness ==
    /\ ~qcfg.dry_run
    /\ cp.pc = "chunk" /\ cp.doc = 2 /\ cp.idx = 2
    /\ semFiles[2] = <<b0>>
    /\ cp.processed_set = {}
    /\ \A e \in llmLog : e[1] # 2
    /\ outFile[2].lines = <<>>


(***************************************************************************)
(* Evidence lists of the generate pass                                     *)
(***************************************************************************)

\* A valid object of the generate pass with question q and evidence ev.
EvQa(q, ev) == Qa(q, <<"g", "h">>, "basic", ev)

\* Valid objects, told apart by their questions, whose evidence is an empty
\* list, a list without any chunk id, a list of an id no group holds, a list
\* of the id a1 and an id no group holds, and a list of the id a0.
EvQaUniverse ==
    { EvQa(<<"q", "1">>, EvList(<<>>)),
      EvQa(<<"q", "2">>, EvList(<<EvOther, EvStr(" ")>>)),
      EvQa(<<"q", "3">>, EvList(<<EvStr("zz")>>)),
      EvQa(<<"q", "4">>, EvList(<<EvStr("zz"), EvStr("a1 ")>>)),
      EvQa(<<"q", "5">>, EvList(<<EvStr(" a0")>>)) }

\* Every request of a call succeeds.
OkSeqs == {[i \in 1..(max_retries + 1) |-> "ok"]}

\* One run of main without quotas in which the generate pass answers with
\* one object of EvQaUniverse.
EvidenceNext == CandSteps(1, NbLists, OkSeqs, {<<qa>> : qa \in EvQaUniverse})

EvidenceInit ==
    /\ CandInit({<<<<a0, a1>>, <<b0>>>>}, {IntQuota(0)}, {0}, {"append"}, {1}, {FALSE, TRUE})
    /\ DataStageIdle
    /\ GroupingIdle

SpecEvidence == EvidenceInit /\ [][EvidenceNext]_vars

\* The object of EvQaUniverse a written record was made from.
QaOf(rec) == CHOOSE qa \in EvQaUniverse : qa.question = rec.question

\* The chunk ids an evidence list names: its non-blank strings, stripped.
EvidenceIds(ev) ==
    {StripId(ev.items[i].v) : i \in {j \in 1..Len(ev.items) : ev.items[j].isstr}} \ {""}

\* C19 (Scenario B): a record written for an object whose evidence list is
\* empty, or names no chunk id of the context group, has the full
\* context_chunks list of the group as its source_chunks.
C19_EvidenceFallback ==
    \A rec \in OutLines :
        LET ev == QaOf(rec).evidence IN
        (ev.islist /\ EvidenceIds(ev) \cap Elems(rec.context_chunks) = {})
            => rec.source_chunks = rec.context_chunks

\* Records were written for an object with an empty evidence list and for
\* an object whose evidence list names only the id zz, which is in no group.
C19_Witness ==
    \E r1 \in OutLines, r3 \in OutLines :
        /\ r1.question = <<"q", "1">> /\ r3.question = <<"q", "3">>
        /\ Len(r1.context_chunks) >= 2 /\ Len(r3.context_chunks) >= 2
        /\ r3.source_chunks = r3.context_chunks


\* C20 (not-a-subset fallback), as claimed: a record written for an object
\* whose evidence list is not a subset of the chunk ids of the context
\* group, also one that names ids of the group beside ids outside it, has
\* the full context_chunks list as its source_chunks.
C20_NotSubsetFallsBack ==
    \A rec \in OutLines :
        LET ev == QaOf(rec).evidence IN
        (ev.islist /\ ~(EvidenceIds(ev) \subseteq Elems(rec.context_chunks)))
            => rec.source_chunks = rec.context_chunks

\* C20, amended: a record written for an object whose evidence list names
\* ids of the context group beside ids outside it has as source_chunks the
\* ids of the list that belong to the group (the intersection); the full
\* context_chunks list is taken only when the list names no id of the group.
C20_NotSubsetKeepsIntersection ==
    \A rec \in OutLines :
        LET ev   == QaOf(rec).evidence
            hits == EvidenceIds(ev) \cap Elems(rec.context_chunks)
        IN  (ev.islist /\ ~(EvidenceIds(ev) \subseteq Elems(rec.context_chunks))) =>
                /\ hits # {} => Elems(rec.source_chunks) = hits
                /\ hits = {} => rec.source_chunks = rec.context_chunks

\* A record was written for the object whose evidence list names zz and a1,
\* in a group that holds a1 and another chunk: its source_chunks is [a1].
C20_Witness ==
    \E rec \in OutLines :
        /\ rec.question = <<"q", "4">>
        /\ Len(rec.context_chunks) >= 2
        /\ rec.source_chunks = <<"a1">>


(***************************************************************************)
(* Counters of run_reduce                                                  *)
(***************************************************************************)

\* Position p comes before position q in the order run_reduce reads.
Before(p, q) == p[1] < q[1] \/ (p[1] = q[1] /\ p[2] < q[2])

\* The number of records of the shard files that repeat the
\* (instruction, output) pair of a record read earlier.
Repeats(files) ==
    Cardinality({q \in Positions(files) :
                    \E p \in Positions(files) :
                        Before(p, q) /\ Pair(At(files, p)) = Pair(At(files, q))})

\* Every record of the shard files has a string instruction and output.
StructurallyValid(files) ==
    \A p \in Positions(files) : IsStr(At(files, p).instruction) /\ IsStr(At(files, p).output)

\* The entry the last run put at the head of the changelog.
LatestEntry ==
    IF "title" \in DOMAIN changelog.lines[1] THEN changelog.lines[2] ELSE changelog.lines[1]

\* C21 (reduce counters): when run_reduce has ended without an example
\* limit, its changelog entry has read = kept + dropped + duped; and when the
\* shard files it read hold only structurally valid records of which d
\* repeat the (instruction, output) pair of an earlier record, the entry has
\* duped = d and kept = read - d.
C21_ReduceCounters ==
    (lastReduce.done /\ cfg.limit_num_examples = 0 /\ ~cfg.dry_run /\ cfg.write_changelog) =>
        LET e == LatestEntry IN
        /\ e.read = e.kept + e.dropped + e.duplicates_removed
        /\ StructurallyValid(lastReduce.input) =>
              /\ e.duplicates_removed = Repeats(lastReduce.input)
              /\ e.kept = e.read - Repeats(lastReduce.input)


(***************************************************************************)
(* Versions and files of the dataset stage                                 *)
(***************************************************************************)

\* A step in which main starts run_single with version "auto".
AutoSingleStart ==
    /\ sg.pc = "idle" /\ sg'.pc = "run"
    /\ lastCall'.mode = "single" /\ lastCall'.version = AUTO

\* The versions named by the entries of the changelog.
ChangelogVersions ==
    {changelog.lines[i].version :
        i \in {j \in 1..Len(changelog.lines) : "version" \in DOMAIN changelog.lines[j]}}

\* C22 (version inference): a single-mode run with version "auto" runs with
\* v1 when no dataset file exists and with v(M+1) otherwise, M being the
\* largest version of an existing dataset file: a version greater than every
\* existing one, whose dataset file does not exist yet, and greater than the
\* version of every earlier run recorded in the changelog.
C22_VersionInference ==
    [][AutoSingleStart =>
          LET existing == {v \in Versions : finalFile[v].exists} IN
          /\ existing = {} => sg'.version = 1
          /\ existing # {} =>
                \E m \in existing : /\ \A v \in existing : v <= m
                                    /\ sg'.version = m + 1
          /\ \A v \in existing : v < sg'.version
          /\ ~finalFile[sg'.version].exists
          /\ \A v \in ChangelogVersions : v < sg'.version]_vars

\* A single-mode run with version "auto" runs with v2: the dataset of v1
\* exists with a record, and the changelog has the entry of its run.
C22_Witness ==
    /\ sg.pc = "run" /\ sg.version = 2
    /\ lastCall = [mode |-> "single", version |-> AUTO, outcome |-> "started"]
    /\ finalFile[1].exists /\ finalFile[1].lines # <<>>
    /\ 1 \in ChangelogVersions


\* The lines of file before are the first lines of file after.
KeepsLines(before, after) ==
    /\ Len(before.lines) <= Len(after.lines)
    /\ SubSeq(after.lines, 1, Len(before.lines)) = before.lines

\* A step in which run_reduce, or run_single in a resume mode other than
\* "append", starts with the explicit version v and opens its dataset file.
RewriteStart(v) ==
    /\ lastCall'.outcome = "started" /\ lastCall'.version = v
    /\ ~cfg.dry_run
    /\ \/ lastCall'.mode = "reduce" /\ rd'.pc = "run" /\ rd'.version = v
       \/ lastCall'.mode = "single" /\ sg'.pc = "run" /\ sg'.version = v
                                    /\ sg'.resume_mode # "append"

MapWorkerStep(k) == mp'[k] # mp[k]

\* The version a map worker runs with during a step of its own.
MapVersion(k) == IF mp[k].pc = "run" THEN mp[k].version ELSE mp'[k].version

\* C24 (shard isolation): a step of the map worker with shard id k changes
\* no file but shard_k.jsonl and shard_k.rejects.jsonl in the intermediate
\* directory of its version: not another shard's files, not the final
\* dataset or its rejects file, not the changelog; and in map/reduce
\* operation the final dataset changes only in steps of run_reduce.
C24_ShardIsolation ==
    [][/\ \A k \in ShardIds :
             MapWorkerStep(k) =>
                 /\ finalFile' = finalFile /\ rejFile' = rejFile
                 /\ changelog' = changelog
                 /\ \A v \in Versions, j \in ShardIds :
                        (v # MapVersion(k) \/ j # k) =>
                            /\ shardFile'[v][j] = shardFile[v][j]
                            /\ shardRej'[v][j] = shardRej[v][j]
       /\ finalFile' # finalFile => rd'.pc = "run" /\ \A k \in ShardIds : ~MapWorkerStep(k)]_vars

\* Two map workers run at the same time and each has written to a file of
\* its own: worker 0 a sample to shard_00, worker 1 a line to its rejects
\* file.
C24_Witness ==
    /\ mp[0].pc = "run" /\ mp[1].pc = "run"
    /\ shardFile[1][0].lines # <<>>
    /\ shardRej[1][1].lines # <<>>


(***************************************************************************)
(* call_llm_ollama_with_retries on its own                                 *)
(***************************************************************************)

\* Largest llm.max_retries of the calls.
MaxRetries == 3

\* The calls: max_retries from 0 to MaxRetries, and the outcomes of the
\* requests the service would answer, of which the call makes the first ones.
RetryArgs ==
    [pc : {"call"}, max_retries : 0..MaxRetries,
     outcomes : [1..(MaxRetries + 1) -> AttemptOutcomes],
     result : {[ok |-> FALSE, tries |-> 0, err |-> ""]}]

\* The call of call_llm_ollama_with_retries with the arguments drawn.
CallWithRetries ==
    /\ bcg.pc = "call"
    /\ bcg' = [bcg EXCEPT !.pc = "done",
                          !.result = call_llm_ollama_with_retries(bcg.outcomes, bcg.max_retries)]
    /\ UNCHANGED <<dvars, cvars>>

RetriesInit ==
    /\ bcg \in RetryArgs
    /\ DataStageIdle
    /\ CandStageIdle

SpecRetries == RetriesInit /\ [][CallWithRetries]_vars

\* The call returns at the first successful attempt, and raises the error
\* of the last attempt when every attempt has failed.
FirstSuccessOrLastError(call) ==
    LET r == call.result IN
    /\ r.ok => /\ call.outcomes[r.tries] = "ok"
               /\ \A i \in 1..(r.tries - 1) : call.outcomes[i] # "ok"
               /\ r.err = ""
    /\ ~r.ok => /\ \A i \in 1..r.tries : call.outcomes[i] # "ok"
                /\ r.err = call.outcomes[r.tries]

\* C25 (retry bound): one call of call_llm_ollama_with_retries makes at most
\* max_retries attempts; it returns at the first successful attempt, and
\* when all attempts fail it raises the last error.
C25_RetryBound ==
    bcg.pc = "done" =>
        /\ bcg.result.tries <= bcg.max_retries
        /\ FirstSuccessOrLastError(bcg)

\* C25, amended: for max_retries >= 0 the call makes at most max_retries + 1
\* attempts, the first one and max_retries retries, and makes all of them
\* when every attempt fails; it returns at the first successful attempt,
\* and when all attempts fail it raises the last error.
C25_RetryBoundPlusOne ==
    bcg.pc = "done" =>
        /\ bcg.result.tries <= bcg.max_retries + 1
        /\ ~bcg.result.ok => bcg.result.tries = bcg.max_retries + 1
        /\ FirstSuccessOrLastError(bcg)

\* A call with max_retries = 2 whose three attempts failed, the first with
\* a transient error and the last with HTTP 404, which the call raised.
C25_Witness ==
    /\ bcg.pc = "done" /\ bcg.max_retries = 2
    /\ bcg.outcomes[1] = "error" /\ bcg.outcomes[3] = "not_found"
    /\ bcg.result = [ok |-> FALSE, tries |-> 3, err |-> "not_found"]


(***************************************************************************)
(* The global quota of the workers of the candidate stage                  *)
(***************************************************************************)

\* Largest sampling.global_qa_limit of the runs with several workers.
MaxGlobalLimit == 5

\* The workers of two or three shards run one after the other, each over
\* its documents, with a global limit from 1 to MaxGlobalLimit; every
\* request succeeds and is answered with one valid object.
QuotaNext == CandSteps(MaxShards, {<<>>, <<v1, v2>>}, OkSeqs, QaValid)

QuotaInit ==
    /\ CandInit({<<<<a0, a1>>, <<b0>>>>}, {IntQuota(0)}, 1..MaxGlobalLimit, {"append"},
                2..MaxShards, {FALSE, TRUE})
    /\ DataStageIdle
    /\ GroupingIdle

SpecQuota == QuotaInit /\ [][QuotaNext]_vars

\* The candidates the running worker has written in its run.
WrittenByWorker ==
    cm.total_written_global + (IF cp.pc = "idle" THEN 0 ELSE cp.total_written)

\* C26 (quota pre-division): with a global limit G > 0 and N > 1 shards, the
\* global quota of a running worker is ceil(G / N): it is what the worker
\* starts its first file with, whatever the workers before it have written,
\* and what is left of it is ceil(G / N) less the candidates the worker
\* itself has written; N such shares sum to at least G and to less than
\* G + N.
C26_QuotaPreDivision ==
    (cm.pc = "run" /\ qcfg.global_qa_limit > 0 /\ qcfg.num_shards > 1) =>
        LET G == qcfg.global_qa_limit
            N == qcfg.num_shards
            q == cm.quota.n
        IN  /\ cm.quota.limited /\ cm.remaining_global.limited
            /\ (q - 1) * N < G /\ G <= q * N
            /\ N * q >= G /\ N * q < G + N
            /\ cm.remaining_global.n = q - WrittenByWorker

\* The worker of shard 1 of three runs with the quota ceil(4 / 3) = 2 after
\* the worker of shard 0 has written two candidates.
C26_Witness ==
    /\ cm.pc = "run" /\ cm.shard_id = 1
    /\ qcfg.global_qa_limit = 4 /\ qcfg.num_shards = 3
    /\ cm.quota = Limited(2)
    /\ Len(outFile[1].lines) = 2


(***************************************************************************)
(* Drops of a map + reduce run                                             *)
(***************************************************************************)

\* The input lines that validation rejects.
RejectedByValidation == {p \in Positions(candFiles) : reject_reason(At(candFiles, p)) # ""}

\* Input line p is in the rejects file of a map worker, with its reason code.
InShardRejects(p) ==
    \E k \in 0..(cfg.num_shards - 1) : \E i \in 1..Len(shardRej[1][k].lines) :
        LET r == shardRej[1][k].lines[i] IN
        /\ r.file = p[1] /\ r.line = p[2]
        /\ r.reason = reject_reason(At(candFiles, p))

\* run_reduce has completed over the shard files that the map workers of
\* all shards have written, without an example limit.
MapReduceComplete ==
    /\ MapsDone /\ rd.pc = "idle" /\ lastReduce.done
    /\ lastReduce.input = ShardSeq(shardFile[1], cfg.num_shards)
    /\ cfg.limit_num_examples = 0 /\ ~cfg.dry_run

\* C27 (auditable drops): after a complete map + reduce run every candidate
\* rejected by validation is in a rejects file with its reason code, the
\* dropped count of the changelog entry includes the candidates rejected by
\* validation in the map phase, and its read count is the number of source
\* candidates.
C27_AuditableDrops ==
    MapReduceComplete =>
        /\ \A p \in RejectedByValidation : InShardRejects(p)
        /\ LatestEntry.dropped >= Cardinality(RejectedByValidation)
        /\ LatestEntry.read = Cardinality(Positions(candFiles))


(***************************************************************************)
(* The candidate output file in resume_mode "append" and "resume"          *)
(***************************************************************************)

\* C28 (append-only candidates): in resume_mode "append" or "resume" no
\* step of a run removes or changes a line of a candidate output file: the
\* lines before the step are the first lines after it; the generate pass of
\* a group adds one line for each candidate it keeps, and the file of the
\* running process_semantic_file holds the lines it had when it was opened
\* followed by one line for each candidate kept so far.
C28_AppendOnly ==
    [][qcfg.resume_mode \in {"append", "resume"} =>
          /\ \A d \in 1..NumDocs : KeepsLines(outFile[d], outFile'[d])
          /\ cp.pc = "generate" =>
                Len(outFile'[cp.doc].lines) - Len(outFile[cp.doc].lines)
                    = cp'.total_written - cp.total_written
          /\ cp'.pc # "idle" =>
                Len(outFile'[cp'.doc].lines) = cp'.base + cp'.total_written]_vars

\* A second run in resume_mode "resume" found one line in the output file
\* of the document and has added a line for the one candidate it kept.
C28_Witness ==
    /\ cruns = 2 /\ cp.pc # "idle" /\ qcfg.resume_mode = "resume"
    /\ cp.base = 1 /\ cp.total_written = 1
    /\ Len(outFile[cp.doc].lines) = 2


(***************************************************************************)
(* Single mode and map + reduce over the same candidates                   *)
(***************************************************************************)

\* The candidate files of the comparison: lines with and without colliding
\* dedup keys.
BothLayouts == CandLayoutsOf(CandUniverse \cup CollideUniverse, MaxCands)

\* One deployment runs map and reduce with version v1 and single mode (in
\* resume mode "overwrite") with version v2 over the same candidate files,
\* with the same configuration and without an example limit.
BothNext ==
    \/ MRNext
    \/ SingleStart(2, "overwrite") /\ UNCHANGED <<cvars, bcg>>
    \/ SingleStep /\ UNCHANGED <<cvars, bcg>>
    \/ SingleEnd /\ UNCHANGED <<cvars, bcg>>

BothInit ==
    /\ DataInit(BothLayouts, 1..MRShards, {0}, {"sequential"}, {"hash16"}, {FALSE})
    /\ CandStageIdle
    /\ GroupingIdle

SpecBoth == BothInit /\ [][BothNext]_vars

\* The (instruction, output) pairs of the records of a dataset file.
PairsOf(file) == {Pair(file.lines[i]) : i \in 1..Len(file.lines)}

\* run_single has completed with version v2.
SingleComplete == sg.pc = "idle" /\ finalFile[2].exists

\* C29 (single equals map + reduce): when map + reduce (with any number of
\* shards) and single mode have both completed over the same candidate
\* files, the dataset of single mode and the dataset of reduce hold the same
\* set of (instruction, output) pairs.
C29_SingleEqualsMapReduce ==
    (MapReduceComplete /\ SingleComplete) => PairsOf(finalFile[1]) = PairsOf(finalFile[2])


(***************************************************************************)
(* The prompt of the generate request                                      *)
(***************************************************************************)

\* grouping.max_total_context_chars of the runs: no budget, and budgets
\* that hold no block, one block, two blocks and all blocks of a group.
PromptBudgets == {0, 30, 40, 80, 120}

\* One run of main in which every request succeeds and the generate pass is
\* answered with one valid object.
PromptNext == CandSteps(1, NbLists, OkSeqs, QaValid)

PromptInit ==
    /\ semFiles \in {<<<<a0, a1>>, <<b0>>>>}
    /\ qcfg \in [resume_mode : {"append"}, dry_run : {FALSE, TRUE},
                 max_qa_per_document : {IntQuota(0)}, global_qa_limit : {0},
                 num_shards : {1}, min_group_size : {2}, max_group_size : {3},
                 max_groups_per_chunk : {2}, n_before : {1}, n_after : {1},
                 limit_num_chunks : {0}, max_chars_per_chunk : {2, 1200},
                 max_total_context_chars : PromptBudgets]
    /\ outFile = [d \in 1..NumDocs |-> NoFile]
    /\ cm = IdleProc
    /\ cp = IdleProc
    /\ llmLog = {}
    /\ cruns = 0
    /\ DataStageIdle
    /\ GroupingIdle

SpecPrompt == PromptInit /\ [][PromptNext]_vars

\* The chunk ids of the blocks of a prompt.
RenderedIds(prompt) == {prompt[i].chunk_id : i \in 1..Len(prompt)}

\* C30 (context_chunks are the ids offered to the model): every candidate
\* that the generate pass of a group writes names in context_chunks only
\* ids of chunks rendered into the user prompt of that generate request,
\* whatever max_total_context_chars is.
C30_ContextChunksOffered ==
    [][cp.pc = "generate" =>
          \A i \in (Len(outFile[cp.doc].lines) + 1)..Len(outFile'[cp.doc].lines) :
              Elems(outFile'[cp.doc].lines[i].context_chunks)
                  \subseteq RenderedIds(cp.user_prompt)]_vars


(***************************************************************************)
(* Candidate ids                                                           *)
(***************************************************************************)

\* C31 (candidate id from content): two candidates written with the same
\* anchor chunk id, the same stripped question and the same stripped answer
\* have the same id, whatever the positions of their objects in the
\* response arrays of the model.
C31_IdFromContent ==
    \A r1 \in OutLines, r2 \in OutLines :
        (/\ r1.anchor_chunk_id = r2.anchor_chunk_id
         /\ Strip(r1.question) = Strip(r2.question)
         /\ Strip(r1.answer) = Strip(r2.answer)) => r1.id = r2.id


\* The documents whose position in the sorted file list, counted from 0,
\* leaves the remainder k when divided by num_shards.
AssignedTo(k) == {d \in 1..Len(semFiles) : (d - 1) % qcfg.num_shards = k}

\* C32 (one worker per document): the worker with shard id k processes
\* exactly the documents assigned to k, the assignments of the shard ids
\* 0..num_shards-1 are disjoint and cover every document, and the document
\* whose output file a worker writes and whose quota it counts is one of
\* its own.
C32_OneWorkerPerDocument ==
    /\ \A d \in 1..Len(semFiles) :
          Cardinality({k \in 0..(qcfg.num_shards - 1) : d \in AssignedTo(k)}) = 1
    /\ cm.pc = "run" => Elems(cm.semantic_files) = AssignedTo(cm.shard_id)
    /\ (cm.pc = "run" /\ cp.pc # "idle") => cp.doc \in AssignedTo(cm.shard_id)

\* The worker of shard 1 of two processes document 2 and has written a
\* candidate to its output file, after the worker of shard 0 has written
\* candidates to the output file of document 1.
C32_Witness ==
    /\ qcfg.num_shards = 2
    /\ cm.pc = "run" /\ cm.shard_id = 1 /\ cp.pc # "idle" /\ cp.doc = 2
    /\ outFile[1].lines # <<>> /\ outFile[2].lines # <<>>


(***************************************************************************)
(* Dry runs of the dataset stage                                           *)
(***************************************************************************)

\* The next runs of main are called with or without --dry-run.
SetDryRun(dry) ==
    /\ AllIdle
    /\ cfg.dry_run # dry
    /\ cfg' = [cfg EXCEPT !.dry_run = dry]
    /\ UNCHANGED <<candFiles, clock, shardFile, shardRej, finalFile, rejFile,
                   changelog, mp, rd, sg, lastCall, lastReduce, prevReduce>>

\* Runs of main in every mode, some of them with --dry-run.
DryNext ==
    \/ MainNext
    \/ \E dry \in BOOLEAN : SetDryRun(dry) /\ UNCHANGED <<cvars, bcg>>

DryInit ==
    /\ DataInit(CandLayouts(MainCands), 1..MRShards, {0}, {"sequential"}, {"hash16"},
                {FALSE, TRUE})
    /\ CandStageIdle
    /\ GroupingIdle

SpecDry == DryInit /\ [][DryNext]_vars

\* C33 (dataset dry run): no step of run_single, run_map or run_reduce with
\* dry_run set creates or changes a dataset file, a shard file, a rejects
\* file or the changelog.
C33_DatasetDryRun ==
    [][cfg.dry_run => UNCHANGED DataFiles]_vars

\* A dry run of run_reduce has read and kept a record while the dataset
\* file of its version, written by an earlier run, still holds its record
\* and the changelog its one entry.
C33_Witness ==
    /\ cfg.dry_run /\ rd.pc = "run" /\ rd.c.kept >= 1
    /\ finalFile[rd.version].lines # <<>>
    /\ Len(changelog.lines) = 2


(***************************************************************************)
(* Quotas and anchors across resumed runs                                  *)
(***************************************************************************)

\* C34 (per-document quota across resumed runs): in resume_mode "append" or
\* "resume" with a per-document quota configured, the output file of a
\* document never holds more candidates than the quota computed for the
\* document, however many runs have written to it.
C34_QuotaAcrossRuns ==
    (qcfg.resume_mode \in {"append", "resume"} /\ DocQuotaConfigured) =>
        \A d \in 1..NumDocs :
            Len(outFile[d].lines)
                <= compute_max_qa_per_document(qcfg.max_qa_per_document, Len(semFiles[d]))


(***************************************************************************)
(* run_single in resume_mode "resume" and "append"                         *)
(***************************************************************************)

\* C35 (single-mode resume keeps earlier records): in every step of a run of
\* run_single in resume_mode "resume" or "append", its start included, the
\* records that were in the output file stay in it, and no record is
\* written whose id was in the file when the run started.
C35_SingleResumeKeepsRecords ==
    [][(sg'.pc = "run" /\ sg'.resume_mode \in {"resume", "append"}) =>
          LET v == sg'.version IN
          /\ KeepsLines(finalFile[v], finalFile'[v])
          /\ \A i \in (Len(finalFile[v].lines) + 1)..Len(finalFile'[v].lines) :
                 Strip(finalFile'[v].lines[i].id) \notin sg'.existing_ids]_vars


(***************************************************************************)
(* Dry runs of the candidate stage                                         *)
(***************************************************************************)

\* runtime.dry_run of the configuration is changed between two runs of main.
SetCandDryRun(dry) ==
    /\ cm.pc = "idle" /\ cp.pc = "idle"
    /\ qcfg.dry_run # dry
    /\ qcfg' = [qcfg EXCEPT !.dry_run = dry]
    /\ UNCHANGED <<semFiles, outFile, cm, cp, llmLog, cruns>>

\* Runs of main over the same documents, some of them dry runs.
CandDryNext ==
    \/ ResumeNext
    \/ \E dry \in BOOLEAN : SetCandDryRun(dry) /\ UNCHANGED <<dvars, bcg>>

SpecCandDry == ResumeInit /\ [][CandDryNext]_vars

\* C36 (candidate dry run): no step of a run with runtime.dry_run set makes
\* a request to the language model or changes a candidate output file that
\* exists, in every resume_mode.
C36_CandidateDryRun ==
    [][qcfg.dry_run =>
          /\ llmLog' \subseteq llmLog
          /\ \A d \in 1..NumDocs : outFile[d].exists => outFile'[d] = outFile[d]]_vars


(***************************************************************************)
(* Counters at the end of a run                                            *)
(***************************************************************************)

Conserved(c) == c.read = c.kept + c.dropped + c.duped

\* C37 (counter conservation): when a run of run_single, run_map or
\* run_reduce ends, in every resume mode, its counters satisfy
\* read = kept + dropped + duped.
C37_CounterConservation ==
    [][/\ (sg.pc = "run" /\ sg'.pc = "idle") => Conserved(sg.c)
       /\ (rd.pc = "run" /\ rd'.pc = "idle") => Conserved(rd.c)
       /\ \A k \in ShardIds :
             (mp[k].pc = "run" /\ mp'[k].pc = "idle") => Conserved(mp[k].c)]_vars


(***************************************************************************)
(* Dedup with dedup_store full                                             *)
(***************************************************************************)

StrippedPair(rec) == <<Strip(rec.instruction), Strip(rec.output)>>

\* C38 (dedup never conflates distinct content): with dedup_store full and
\* the keys (instruction, output), two lines of the shard files have the same
\* dedup fingerprint only if their stripped instructions are equal and their
\* stripped outputs are equal, and when run_reduce has completed a run that
\* the example limit does not cut short, every (instruction, output) pair of
\* the shard lines it read is in the dataset it wrote, also when the strings
\* contain line breaks.
C38_DedupDistinctContent ==
    (lastReduce.done /\ cfg.dedup_store = "full" /\ cfg.limit_num_examples = 0) =>
        /\ \A p \in Positions(lastReduce.input), q \in Positions(lastReduce.input) :
              dedup_fingerprint("full", At(lastReduce.input, p))
                  = dedup_fingerprint("full", At(lastReduce.input, q))
              => StrippedPair(At(lastReduce.input, p)) = StrippedPair(At(lastReduce.input, q))
        /\ \A p \in Positions(lastReduce.input) :
              \E i \in 1..Len(lastReduce.out) :
                  StrippedPair(lastReduce.out[i]) = StrippedPair(At(lastReduce.input, p))


(***************************************************************************)
(* Map workers in any order                                                *)
(***************************************************************************)

\* The lines run_map of shard k writes when it runs on its own from
\* position (fi, li) of the candidate files on, after the lines st.out.
RECURSIVE MapAlone(_, _, _, _)
MapAlone(st, k, fi, li) ==
    IF st.stopped \/ AtEnd(candFiles, fi, li) THEN st.out
    ELSE LET pos == NextPos(candFiles, fi, li)
             r == map_record(st, k, candFiles[pos[1]][pos[2]], pos[1], pos[2])
         IN  MapAlone([st EXCEPT !.c = r.c, !.seen = r.seen, !.out = @ \o r.out,
                                 !.stopped = r.out # <<>> /\ LimitReached(r.c.kept)],
                      k, pos[1], pos[2] + 1)

ShardAlone(k, version) ==
    MapAlone([version |-> version, created_at |-> 0, c |-> Counters0, seen |-> {},
              stopped |-> FALSE, out |-> <<>>], k, 1, 1)

\* The lines run_reduce writes from position (fi, li) of the given shard
\* files on, after the lines st.out.
RECURSIVE ReduceAlone(_, _, _, _)
ReduceAlone(st, files, fi, li) ==
    IF st.stopped \/ AtEnd(files, fi, li) THEN st.out
    ELSE LET pos == NextPos(files, fi, li)
             r == reduce_record(st, files[pos[1]][pos[2]], pos[1], pos[2])
         IN  ReduceAlone([st EXCEPT !.c = r.c, !.seen = r.seen, !.seq = r.seq,
                                    !.out = @ \o r.out,
                                    !.stopped = r.out # <<>> /\ LimitReached(r.c.kept)],
                         files, pos[1], pos[2] + 1)

FinalAlone(version) ==
    ReduceAlone([created_at |-> 0, c |-> Counters0, seen |-> {}, seq |-> 0,
                 stopped |-> FALSE, out |-> <<>>],
                [i \in 1..cfg.num_shards |-> ShardAlone(i - 1, version)], 1, 1)

\* C39 (interleaving independence): whatever the order and interleaving of
\* the map workers, the shard file of a worker that has finished holds the
\* records, in the order, that the worker writes when it runs on its own,
\* and the dataset of a reduce that started after all workers had finished
\* holds the records, order and ids of a reduce over those shard files (the
\* time stamp created_at of a run apart).
C39_InterleavingIndependence ==
    /\ \A k \in 0..(cfg.num_shards - 1), v \in Versions :
          (mp[k].pc = "idle" /\ shardFile[v][k].exists)
              => NoTimeSeq(shardFile[v][k].lines) = NoTimeSeq(ShardAlone(k, v))
    /\ lastReduce.done
          => NoTimeSeq(lastReduce.out) = NoTimeSeq(FinalAlone(lastReduce.version))

\* Worker 1 started before worker 0, both wrote a record, and reduce has
\* written both to the dataset.
C39_Witness ==
    /\ lastReduce.done /\ cfg.num_shards = 2 /\ Len(lastReduce.out) = 2
    /\ shardFile[1][0].lines # <<>> /\ shardFile[1][1].lines # <<>>
    /\ shardFile[1][1].lines[1].created_at < shardFile[1][0].lines[1].created_at


(***************************************************************************)
(* Anchors without a persisted candidate                                   *)
(***************************************************************************)

AnchorsIn(file) == {file.lines[i].anchor_chunk_id : i \in 1..Len(file.lines)}

\* Only anchors with a line in the output file are recorded as processed.
ProcessedHaveLines ==
    cp.pc # "idle" => cp.processed_set \subseteq AnchorsIn(outFile[cp.doc])

\* Some answer of the retrieval leaves the chunk without a context group.
NoGroupPossible ==
    \E nbs \in NbLists :
        /\ \A i \in 1..Len(nbs) : nbs[i].chunk_id # semFiles[cp.doc][cp.idx].chunk_id
        /\ build_context_groups(
               semFiles[cp.doc][cp.idx],
               get_local_neighbors(semFiles[cp.doc], cp.idx, qcfg.n_before, qcfg.n_after),
               nbs, qcfg.min_group_size, qcfg.max_group_size,
               qcfg.max_groups_per_chunk) = <<>>

\* The chunk loop is at an eligible chunk that has no line in the output
\* file, and no quota or debug limit ends the loop.
AtUnpersistedAnchor ==
    /\ cp.pc = "chunk" /\ cp.idx <= Len(semFiles[cp.doc])
    /\ qcfg.resume_mode \in {"append", "resume"}
    /\ AnchorId # "" /\ is_candidate_chunk(semFiles[cp.doc][cp.idx])
    /\ AnchorId \notin AnchorsIn(outFile[cp.doc])
    /\ ~(qcfg.limit_num_chunks > 0 /\ cp.idx - 1 >= qcfg.limit_num_chunks)
    /\ ~quota_reached(cp.remaining_qa_for_document)
    /\ ~quota_reached(cm.remaining_global)

\* C40 (failed anchors are retried): an anchor chunk for which no candidate
\* was persisted is not recorded as processed, and a run in resume_mode
\* append or resume that comes to an eligible anchor without a line in the
\* output file goes on to the context groups of that anchor; it passes on to
\* the next chunk only if no context group can be built.
C40_FailedAnchorsRetried ==
    /\ []ProcessedHaveLines
    /\ [][AtUnpersistedAnchor => \/ cp'.pc = "group" /\ cp'.idx = cp.idx
                                 \/ cp'.pc = "chunk" /\ NoGroupPossible]_vars

\* The first run wrote nothing for a0 and a candidate for a1; the second run
\* has made the plan request of a0 and is about to make the generate request.
C40_Witness ==
    /\ cruns = 2 /\ qcfg.resume_mode \in {"append", "resume"}
    /\ cp.pc = "generate" /\ AnchorId = "a0"
    /\ cp.base >= 1 /\ AnchorsIn(outFile[cp.doc]) = {"a1"}
    /\ <<cp.doc, "a0", "plan">> \in llmLog

=============================================================================
